---------------------------- MODULE Spec2Model ----------------------------
(***************************************************************************)
(* A model of the Redis-compatible server of this repository: the frame    *)
(* parser, the wire codec, the command engine (execCommand and the command *)
(* table), the master side of replication and the replica handshake.       *)
(*                                                                         *)
(* Buffers are sequences of bytes (0..255).  JavaScript strings are        *)
(* sequences of UTF-16 code units; Buffer.toString() and Buffer.from() are *)
(* the UTF-8 decoder and encoder.  The event loop is modelled with its     *)
(* microtask queue: a data event or a timer runs only when no microtask is *)
(* pending, and every `await` is one pass through the queue.               *)
(***************************************************************************)
EXTENDS Integers, Sequences, FiniteSets, TLC

(***************************************************************************)
(* String literals of the source, as the bytes of their ASCII text.        *)
(***************************************************************************)
\* "PING"
S_PING == <<80, 73, 78, 71>>
\* "ECHO"
S_ECHO == <<69, 67, 72, 79>>
\* "SET"
S_SET == <<83, 69, 84>>
\* "GET"
S_GET == <<71, 69, 84>>
\* "REPLCONF"
S_REPLCONF == <<82, 69, 80, 76, 67, 79, 78, 70>>
\* "PSYNC"
S_PSYNC == <<80, 83, 89, 78, 67>>
\* "WAIT"
S_WAIT == <<87, 65, 73, 84>>
\* "TYPE"
S_TYPE == <<84, 89, 80, 69>>
\* "XADD"
S_XADD == <<88, 65, 68, 68>>
\* "XREAD"
S_XREAD == <<88, 82, 69, 65, 68>>
\* "INCR"
S_INCR == <<73, 78, 67, 82>>
\* "MULTI"
S_MULTI == <<77, 85, 76, 84, 73>>
\* "EXEC"
S_EXEC == <<69, 88, 69, 67>>
\* "INFO"
S_INFO == <<73, 78, 70, 79>>
\* "replication"
S_replication == <<114, 101, 112, 108, 105, 99, 97, 116, 105, 111, 110>>
\* "# Replication\n"
S_ReplicationHead == <<35, 32, 82, 101, 112, 108, 105, 99, 97, 116, 105, 111, 110, 10>>
\* "master"
S_master == <<109, 97, 115, 116, 101, 114>>
\* "slave"
S_slave == <<115, 108, 97, 118, 101>>
\* "role:"
S_role_ == <<114, 111, 108, 101, 58>>
\* "\nmaster_replid:"
S_master_replid_ == <<10, 109, 97, 115, 116, 101, 114, 95, 114, 101, 112, 108, 105, 100, 58>>
\* "\nmaster_repl_offset:"
S_master_repl_offset_ == <<10, 109, 97, 115, 116, 101, 114, 95, 114, 101, 112, 108, 95, 111, 102, 102, 115, 101, 116, 58>>
\* "PONG"
S_PONG == <<80, 79, 78, 71>>
\* "OK"
S_OK == <<79, 75>>
\* "QUEUED"
S_QUEUED == <<81, 85, 69, 85, 69, 68>>
\* "PX"
S_PX == <<80, 88>>
\* "GETACK"
S_GETACK == <<71, 69, 84, 65, 67, 75>>
\* "ACK"
S_ACK == <<65, 67, 75>>
\* "*"
S_STAR == <<42>>
\* "block"
S_block == <<98, 108, 111, 99, 107>>
\* "streams"
S_streams == <<115, 116, 114, 101, 97, 109, 115>>
\* "$"
S_DOLLAR == <<36>>
\* "none"
S_none == <<110, 111, 110, 101>>
\* "string"
S_string == <<115, 116, 114, 105, 110, 103>>
\* "stream"
S_stream == <<115, 116, 114, 101, 97, 109>>
\* "listening-port"
S_listening_port == <<108, 105, 115, 116, 101, 110, 105, 110, 103, 45, 112, 111, 114, 116>>
\* "capa"
S_capa == <<99, 97, 112, 97>>
\* "psync2"
S_psync2 == <<112, 115, 121, 110, 99, 50>>
\* "?"
S_QMARK == <<63>>
\* "-1"
S_MINUS1 == <<45, 49>>
\* "0-0"
S_ZeroZero == <<48, 45, 48>>
\* "8371b4fb1155b71f4a04d3e1bc3e18c4a990aeeb"
S_master_replid == <<56, 51, 55, 49, 98, 52, 102, 98, 49, 49, 53, 53, 98, 55, 49, 102, 52, 97, 48, 52, 100, 51, 101, 49, 98, 99, 51, 101, 49, 56, 99, 52, 97, 57, 57, 48, 97, 101, 101, 98>>
\* "FULLRESYNC "
S_FULLRESYNC_ == <<70, 85, 76, 76, 82, 69, 83, 89, 78, 67, 32>>
\* "ERR syntax error"
E_SyntaxError == <<69, 82, 82, 32, 115, 121, 110, 116, 97, 120, 32, 101, 114, 114, 111, 114>>
\* "ERR wrong number of arguments for 'set' command"
E_SetArity == <<69, 82, 82, 32, 119, 114, 111, 110, 103, 32, 110, 117, 109, 98, 101, 114, 32, 111, 102, 32, 97, 114, 103, 117, 109, 101, 110, 116, 115, 32, 102, 111, 114, 32, 39, 115, 101, 116, 39, 32, 99, 111, 109, 109, 97, 110, 100>>
\* "ERR wrong number of arguments for 'echo' command"
E_EchoArity == <<69, 82, 82, 32, 119, 114, 111, 110, 103, 32, 110, 117, 109, 98, 101, 114, 32, 111, 102, 32, 97, 114, 103, 117, 109, 101, 110, 116, 115, 32, 102, 111, 114, 32, 39, 101, 99, 104, 111, 39, 32, 99, 111, 109, 109, 97, 110, 100>>
\* "ERR wrong number of arguments for 'type' command"
E_TypeArity == <<69, 82, 82, 32, 119, 114, 111, 110, 103, 32, 110, 117, 109, 98, 101, 114, 32, 111, 102, 32, 97, 114, 103, 117, 109, 101, 110, 116, 115, 32, 102, 111, 114, 32, 39, 116, 121, 112, 101, 39, 32, 99, 111, 109, 109, 97, 110, 100>>
\* "ERR wrong number of arguments for 'incr' command"
E_IncrArity == <<69, 82, 82, 32, 119, 114, 111, 110, 103, 32, 110, 117, 109, 98, 101, 114, 32, 111, 102, 32, 97, 114, 103, 117, 109, 101, 110, 116, 115, 32, 102, 111, 114, 32, 39, 105, 110, 99, 114, 39, 32, 99, 111, 109, 109, 97, 110, 100>>
\* "Err wrong number of arguments for 'XADD' command"
E_XaddArity == <<69, 114, 114, 32, 119, 114, 111, 110, 103, 32, 110, 117, 109, 98, 101, 114, 32, 111, 102, 32, 97, 114, 103, 117, 109, 101, 110, 116, 115, 32, 102, 111, 114, 32, 39, 88, 65, 68, 68, 39, 32, 99, 111, 109, 109, 97, 110, 100>>
\* "ERR wrong number of arguments for 'xread' command"
E_XreadArity == <<69, 82, 82, 32, 119, 114, 111, 110, 103, 32, 110, 117, 109, 98, 101, 114, 32, 111, 102, 32, 97, 114, 103, 117, 109, 101, 110, 116, 115, 32, 102, 111, 114, 32, 39, 120, 114, 101, 97, 100, 39, 32, 99, 111, 109, 109, 97, 110, 100>>
\* "WRONGTYPE Operation against a key holding the wrong kind of value"
E_WrongType == <<87, 82, 79, 78, 71, 84, 89, 80, 69, 32, 79, 112, 101, 114, 97, 116, 105, 111, 110, 32, 97, 103, 97, 105, 110, 115, 116, 32, 97, 32, 107, 101, 121, 32, 104, 111, 108, 100, 105, 110, 103, 32, 116, 104, 101, 32, 119, 114, 111, 110, 103, 32, 107, 105, 110, 100, 32, 111, 102, 32, 118, 97, 108, 117, 101>>
\* "ERR value is not an integer or out of range"
E_NotInteger == <<69, 82, 82, 32, 118, 97, 108, 117, 101, 32, 105, 115, 32, 110, 111, 116, 32, 97, 110, 32, 105, 110, 116, 101, 103, 101, 114, 32, 111, 114, 32, 111, 117, 116, 32, 111, 102, 32, 114, 97, 110, 103, 101>>
\* "ERR EXEC without MULTI"
E_ExecWithoutMulti == <<69, 82, 82, 32, 69, 88, 69, 67, 32, 119, 105, 116, 104, 111, 117, 116, 32, 77, 85, 76, 84, 73>>
\* "Unknown command: "
E_UnknownCommand_ == <<85, 110, 107, 110, 111, 119, 110, 32, 99, 111, 109, 109, 97, 110, 100, 58, 32>>
\* "ERR Invalid stream ID specified as stream command argument"
E_InvalidStreamId == <<69, 82, 82, 32, 73, 110, 118, 97, 108, 105, 100, 32, 115, 116, 114, 101, 97, 109, 32, 73, 68, 32, 115, 112, 101, 99, 105, 102, 105, 101, 100, 32, 97, 115, 32, 115, 116, 114, 101, 97, 109, 32, 99, 111, 109, 109, 97, 110, 100, 32, 97, 114, 103, 117, 109, 101, 110, 116>>
\* "ERR The ID specified in XADD must be greater than 0-0"
E_IdZero == <<69, 82, 82, 32, 84, 104, 101, 32, 73, 68, 32, 115, 112, 101, 99, 105, 102, 105, 101, 100, 32, 105, 110, 32, 88, 65, 68, 68, 32, 109, 117, 115, 116, 32, 98, 101, 32, 103, 114, 101, 97, 116, 101, 114, 32, 116, 104, 97, 110, 32, 48, 45, 48>>
\* "ERR The ID specified in XADD is equal or smaller than the target stream top item"
E_IdSmaller == <<69, 82, 82, 32, 84, 104, 101, 32, 73, 68, 32, 115, 112, 101, 99, 105, 102, 105, 101, 100, 32, 105, 110, 32, 88, 65, 68, 68, 32, 105, 115, 32, 101, 113, 117, 97, 108, 32, 111, 114, 32, 115, 109, 97, 108, 108, 101, 114, 32, 116, 104, 97, 110, 32, 116, 104, 101, 32, 116, 97, 114, 103, 101, 116, 32, 115, 116, 114, 101, 97, 109, 32, 116, 111, 112, 32, 105, 116, 101, 109>>
\* "XRANGE"
S_XRANGE == <<88, 82, 65, 78, 71, 69>>
\* "KEYS"
S_KEYS == <<75, 69, 89, 83>>
\* "ERR wrong number of arguments for 'xrange' command"
E_XrangeArity == <<69, 82, 82, 32, 119, 114, 111, 110, 103, 32, 110, 117, 109, 98, 101, 114, 32, 111, 102, 32, 97, 114, 103, 117, 109, 101, 110, 116, 115, 32, 102, 111, 114, 32, 39, 120, 114, 97, 110, 103, 101, 39, 32, 99, 111, 109, 109, 97, 110, 100>>
\* "ERR wrong number of arguments for 'keys' command"
E_KeysArity == <<69, 82, 82, 32, 119, 114, 111, 110, 103, 32, 110, 117, 109, 98, 101, 114, 32, 111, 102, 32, 97, 114, 103, 117, 109, 101, 110, 116, 115, 32, 102, 111, 114, 32, 39, 107, 101, 121, 115, 39, 32, 99, 111, 109, 109, 97, 110, 100>>
\* "Expecting array"
E_ExpectingArray == <<69, 120, 112, 101, 99, 116, 105, 110, 103, 32, 97, 114, 114, 97, 121>>
\* "Expecting string data type identifier"
E_ExpectingString == <<69, 120, 112, 101, 99, 116, 105, 110, 103, 32, 115, 116, 114, 105, 110, 103, 32, 100, 97, 116, 97, 32, 116, 121, 112, 101, 32, 105, 100, 101, 110, 116, 105, 102, 105, 101, 114>>
\* "Expecting \n character after \r"
E_ExpectingLF == <<69, 120, 112, 101, 99, 116, 105, 110, 103, 32, 92, 110, 32, 99, 104, 97, 114, 97, 99, 116, 101, 114, 32, 97, 102, 116, 101, 114, 32, 92, 114>>
\* the hex string of sendRDBFile, decoded
emptyRDBFile == <<82, 69, 68, 73, 83, 48, 48, 49, 49, 250, 9, 114, 101, 100, 105, 115, 45, 118, 101, 114, 5, 55, 46, 50, 46, 48, 250, 10, 114, 101, 100, 105, 115, 45, 98, 105, 116, 115, 192, 64, 250, 5, 99, 116, 105, 109, 101, 194, 109, 8, 188, 101, 250, 8, 117, 115, 101, 100, 45, 109, 101, 109, 194, 176, 196, 16, 0, 250, 8, 97, 111, 102, 45, 98, 97, 115, 101, 192, 0, 255, 240, 110, 59, 254, 192, 255, 90, 162>>

\* F applied to the value of v, which is computed once
With(v, F(_)) == CHOOSE r \in {F(w) : w \in {v}} : TRUE

(***************************************************************************)
(* JavaScript values.  `undefined` is a sequence no string equals; a       *)
(* number is a record so that NaN compares false with everything.          *)
(***************************************************************************)
UNDEF == <<-1>>

Num(v) == [nan |-> FALSE, v |-> v]

NaN == [nan |-> TRUE, v |-> 0]

NumEq(a, b) == ~a.nan /\ ~b.nan /\ a.v = b.v

NumLt(a, b) == ~a.nan /\ ~b.nan /\ a.v < b.v

NumLe(a, b) == ~a.nan /\ ~b.nan /\ a.v <= b.v

\* !x for a string or undefined
Falsy(x) == x = UNDEF \/ x = <<>>

\* Array.prototype.at(i) and args[i], 0-based
At(args, i) == IF i >= 0 /\ i < Len(args) THEN args[i + 1] ELSE UNDEF

CRLF == <<13, 10>>

IsDigit(b) == b >= 48 /\ b <= 57

AllDigits(s) == \A i \in 1..Len(s) : IsDigit(s[i])

RECURSIVE DigitsValue(_)
DigitsValue(s) ==
  IF s = <<>> THEN 0
  ELSE 10 * DigitsValue(SubSeq(s, 1, Len(s) - 1)) + (s[Len(s)] - 48)

\* Number(s) on the decimal strings the model feeds it: "" is 0, an optional
\* sign and digits are their value, undefined and anything else is NaN.
Number(s) ==
  IF s = UNDEF THEN NaN
  ELSE IF s = <<>> THEN Num(0)
  ELSE IF AllDigits(s) THEN Num(DigitsValue(s))
  ELSE IF Len(s) > 1 /\ s[1] = 45 /\ AllDigits(Tail(s)) THEN Num(0 - DigitsValue(Tail(s)))
  ELSE NaN

RECURSIVE NatToString(_)
NatToString(n) ==
  IF n < 10 THEN <<48 + n>> ELSE NatToString(n \div 10) \o <<48 + (n % 10)>>

\* String(n) and `${n}` for an integer
NumToString(n) == IF n < 0 THEN <<45>> \o NatToString(0 - n) ELSE NatToString(n)

\* String.prototype.toUpperCase, on ASCII and Latin-1 letters
UpperUnit(u) ==
  IF u >= 97 /\ u <= 122 THEN u - 32
  ELSE IF u >= 224 /\ u <= 254 /\ u # 247 THEN u - 32
  ELSE u

toUpperCase(s) == [i \in 1..Len(s) |-> UpperUnit(s[i])]

\* String.prototype.includes for a one-unit needle
Includes(s, u) == \E i \in 1..Len(s) : s[i] = u

\* String.prototype.split for a one-unit separator
RECURSIVE SplitAt(_, _, _)
SplitAt(s, u, cur) ==
  IF s = <<>> THEN <<cur>>
  ELSE IF Head(s) = u THEN <<cur>> \o SplitAt(Tail(s), u, <<>>)
  ELSE SplitAt(Tail(s), u, Append(cur, Head(s)))

Split(s, u) == SplitAt(s, u, <<>>)

RECURSIVE Concat(_)
Concat(seqs) == IF seqs = <<>> THEN <<>> ELSE Head(seqs) \o Concat(Tail(seqs))

\* Array.prototype.indexOf, 1-based, 0 when absent
IndexOf(seq, x) ==
  IF \E i \in 1..Len(seq) : seq[i] = x
  THEN CHOOSE i \in 1..Len(seq) : seq[i] = x /\ \A j \in 1..(i - 1) : seq[j] # x
  ELSE 0

\* Array.prototype.splice(i, 1), 1-based
RemoveAt(seq, i) == SubSeq(seq, 1, i - 1) \o SubSeq(seq, i + 1, Len(seq))

(***************************************************************************)
(* UTF-8.  Buffer.from(str) encodes code units below 0x800 in one or two   *)
(* bytes and the others (U+FFFD among them) in three.  Buffer.toString()   *)
(* decodes as the WHATWG decoder does: every maximal ill-formed prefix     *)
(* becomes one U+FFFD, and a four-byte sequence becomes a surrogate pair.  *)
(***************************************************************************)
Utf8EncodeUnit(u) ==
  IF u < 128 THEN <<u>>
  ELSE IF u < 2048 THEN <<192 + (u \div 64), 128 + (u % 64)>>
  ELSE <<224 + (u \div 4096), 128 + ((u \div 64) % 64), 128 + (u % 64)>>

\* the bytes of the units lo..hi of s
RECURSIVE Utf8EncodeRange(_, _, _)
Utf8EncodeRange(s, lo, hi) ==
  IF lo > hi THEN <<>>
  ELSE IF lo = hi THEN Utf8EncodeUnit(s[lo])
  ELSE Utf8EncodeRange(s, lo, (lo + hi) \div 2)
       \o Utf8EncodeRange(s, ((lo + hi) \div 2) + 1, hi)

\* Buffer.from(str)
Utf8Encode(s) == Utf8EncodeRange(s, 1, Len(s))

IsCont(b) == b >= 128 /\ b <= 191

\* the range the second byte of a sequence led by b must lie in
SecondLo(b) == IF b = 224 THEN 160 ELSE IF b = 240 THEN 144 ELSE 128

SecondHi(b) == IF b = 237 THEN 159 ELSE IF b = 244 THEN 143 ELSE 191

\* how many bytes a sequence led by b needs (0: b cannot lead)
SeqNeed(b) ==
  IF b < 128 THEN 1
  ELSE IF b >= 194 /\ b <= 223 THEN 2
  ELSE IF b >= 224 /\ b <= 239 THEN 3
  ELSE IF b >= 240 /\ b <= 244 THEN 4
  ELSE 0

\* how many of the bytes from position i on form a well-formed prefix
RECURSIVE ContRun(_, _, _)
ContRun(bytes, i, left) ==
  IF left = 0 \/ i > Len(bytes) \/ ~IsCont(bytes[i]) THEN 0
  ELSE 1 + ContRun(bytes, i + 1, left - 1)

SeqHave(bytes, i) ==
  LET b == bytes[i]
      need == SeqNeed(b)
  IN IF need <= 1 THEN 1
     ELSE IF i + 1 > Len(bytes) \/ bytes[i + 1] < SecondLo(b) \/ bytes[i + 1] > SecondHi(b)
          THEN 1
          ELSE 2 + ContRun(bytes, i + 2, need - 2)

REPLACEMENT == <<65533>>

DecodeOne(bytes, i, n) ==
  LET b == bytes[i]
  IN IF n = 1 THEN <<b>>
     ELSE IF n = 2 THEN <<(b - 192) * 64 + (bytes[i + 1] - 128)>>
     ELSE IF n = 3
          THEN <<(b - 224) * 4096 + (bytes[i + 1] - 128) * 64 + (bytes[i + 2] - 128)>>
          ELSE LET cp == (b - 240) * 262144 + (bytes[i + 1] - 128) * 4096
                         + (bytes[i + 2] - 128) * 64 + (bytes[i + 3] - 128) - 65536
               IN <<55296 + (cp \div 1024), 56320 + (cp % 1024)>>

\* byte i is not swallowed by a sequence that starts before it: only a
\* continuation byte can be, by a leading byte at most three places back
SeqStarts(bytes, i) ==
  \/ ~IsCont(bytes[i])
  \/ ~\E j \in 1..(i - 1) : /\ i - j <= 3
                            /\ ~IsCont(bytes[j])
                            /\ SeqHave(bytes, j) > i - j

\* what the sequence starting at byte i decodes to
DecodeAt(bytes, i) ==
  LET need == SeqNeed(bytes[i])
      have == SeqHave(bytes, i)
  IN IF ~SeqStarts(bytes, i) THEN <<>>
     ELSE IF need = 0 \/ have < need THEN REPLACEMENT
     ELSE DecodeOne(bytes, i, need)

\* the units of the sequences that start at bytes lo..hi
RECURSIVE Utf8DecodeRange(_, _, _)
Utf8DecodeRange(bytes, lo, hi) ==
  IF lo > hi THEN <<>>
  ELSE IF lo = hi THEN DecodeAt(bytes, lo)
  ELSE Utf8DecodeRange(bytes, lo, (lo + hi) \div 2)
       \o Utf8DecodeRange(bytes, ((lo + hi) \div 2) + 1, hi)

\* Buffer.prototype.toString()
Utf8Decode(bytes) == Utf8DecodeRange(bytes, 1, Len(bytes))

(***************************************************************************)
(* Wire codec.                                                             *)
(***************************************************************************)
serialazeBulkString(value) ==
  IF Len(value) = 0 THEN <<36, 45, 49>> \o CRLF
  ELSE <<36>> \o NumToString(Len(value)) \o CRLF \o Utf8Encode(value) \o CRLF

serialazeSimpleString(value) == <<43>> \o Utf8Encode(value) \o CRLF

serialazeSimpleError(value) == <<45>> \o Utf8Encode(value) \o CRLF

serialazeInteger(n) == <<58>> \o NumToString(n) \o CRLF

serialazeArray(args) == <<42>> \o NumToString(Len(args)) \o CRLF \o Concat(args)

serialazeBulkStringArray(arr) ==
  serialazeArray([i \in 1..Len(arr) |-> serialazeBulkString(arr[i])])

(***************************************************************************)
(* Frame parser (CommandParser).  A parser state is the buffer and         *)
(* currentByte; a method returns its value, the new currentByte and, when  *)
(* it throws, the message.  A read past the end yields undefined (-1).     *)
(***************************************************************************)
NoError == <<>>

\* the message of the TypeError thrown by array[0].toUpperCase() on an
\* empty array: "undefined is not an object (evaluating 'array[0].toUpperCase')"
E_TypeError == <<117, 110, 100, 101, 102, 105, 110, 101, 100, 32, 105, 115, 32, 110, 111, 116, 32, 97, 110, 32, 111, 98, 106, 101, 99, 116, 32, 40, 101, 118, 97, 108, 117, 97, 116, 105, 110, 103, 32, 39, 97, 114, 114, 97, 121, 91, 48, 93, 46, 116, 111, 85, 112, 112, 101, 114, 67, 97, 115, 101, 39, 41>>

readByteAt(data, cur) == IF cur >= 0 /\ cur < Len(data) THEN data[cur + 1] ELSE -1

isEnd(data, cur) == cur >= Len(data)

\* an index of Buffer.subarray: negative counts from the end, then clamped
ClampIndex(data, x) ==
  IF x < 0 THEN (IF Len(data) + x < 0 THEN 0 ELSE Len(data) + x)
  ELSE IF x > Len(data) THEN Len(data) ELSE x

subarray(data, from, to) ==
  LET lo == ClampIndex(data, from)
      hi == ClampIndex(data, to)
  IN IF hi <= lo THEN <<>> ELSE SubSeq(data, lo + 1, hi)

\* peekBytes(offset); readBytes(offset) is this and currentByte += offset
peekBytes(data, cur, offset) == subarray(data, cur, cur + offset)

\* String.fromCharCode(byte): undefined converts to 0
fromCharCode(b) == IF b = -1 THEN 0 ELSE b

\* the while loop of parseElement
RECURSIVE ReadUntilCR(_, _, _)
ReadUntilCR(data, cur, value) ==
  IF readByteAt(data, cur) # 13 /\ ~isEnd(data, cur)
  THEN ReadUntilCR(data, cur + 1, Append(value, fromCharCode(readByteAt(data, cur))))
  ELSE [cur |-> cur, value |-> value]

parseElement(data, cur) ==
  LET r == ReadUntilCR(data, cur + 1, <<fromCharCode(readByteAt(data, cur))>>)
  IN IF readByteAt(data, r.cur + 1) # 10
     THEN [err |-> E_ExpectingLF, cur |-> r.cur + 2, value |-> <<>>, nan |-> FALSE]
     ELSE [err |-> NoError, cur |-> r.cur + 2, value |-> r.value, nan |-> FALSE]

\* nan: currentByte became NaN (a bulk length that is no number); every
\* later read is then undefined and isEnd() is false.
parseString(data, cur) ==
  IF readByteAt(data, cur) = 36
  THEN With(parseElement(data, cur + 1), LAMBDA e :
         IF e.err # NoError THEN e
         ELSE With(Number(e.value), LAMBDA length :
                IF length.nan
                THEN [err |-> NoError, cur |-> e.cur, value |-> <<>>, nan |-> TRUE]
                ELSE [err |-> NoError, cur |-> e.cur + length.v + 2,
                      value |-> Utf8Decode(peekBytes(data, e.cur, length.v)),
                      nan |-> FALSE]))
  ELSE IF readByteAt(data, cur) = 43 THEN parseElement(data, cur + 1)
  ELSE [err |-> E_ExpectingString, cur |-> cur + 1, value |-> <<>>, nan |-> FALSE]

\* the for loop of parseArray: `left` elements still to read
RECURSIVE parseArrayElements(_, _, _, _)
parseArrayElements(data, cur, left, arrayElements) ==
  IF left <= 0
  THEN [err |-> NoError, cur |-> cur, value |-> arrayElements, nan |-> FALSE]
  ELSE With(parseString(data, cur), LAMBDA s :
         IF s.err # NoError THEN s
         ELSE IF s.nan
              THEN (IF left > 1
                    THEN [err |-> E_ExpectingString, cur |-> cur, value |-> <<>>, nan |-> TRUE]
                    ELSE [err |-> NoError, cur |-> cur,
                          value |-> Append(arrayElements, s.value), nan |-> TRUE])
              ELSE parseArrayElements(data, s.cur, left - 1, Append(arrayElements, s.value)))

parseArray(data, cur) ==
  With(parseElement(data, cur), LAMBDA e :
    IF e.err # NoError THEN e
    ELSE With(Number(e.value), LAMBDA length :
           parseArrayElements(data, e.cur, IF length.nan THEN 0 ELSE length.v, <<>>)))

\* the while loop of parse(): lastCommandEnd and the commands so far
RECURSIVE parseLoop(_, _, _, _)
parseLoop(data, cur, lastCommandEnd, commands) ==
  IF isEnd(data, cur) THEN [err |-> NoError, commands |-> commands]
  ELSE IF readByteAt(data, cur) # 42 THEN [err |-> E_ExpectingArray, commands |-> <<>>]
  ELSE With(parseArray(data, cur + 1), LAMBDA a :
         IF a.err # NoError THEN [err |-> a.err, commands |-> <<>>]
         ELSE IF a.value = <<>> THEN [err |-> E_TypeError, commands |-> <<>>]
         ELSE IF a.nan THEN [err |-> E_ExpectingArray, commands |-> <<>>]
         ELSE parseLoop(data, a.cur, a.cur,
                        Append(commands, [name |-> toUpperCase(a.value[1]),
                                          args |-> Tail(a.value),
                                          length |-> a.cur - lastCommandEnd])))

parse(data) == parseLoop(data, 0, 0, <<>>)

(***************************************************************************)
(* The program's state.                                                    *)
(*   db                the Map of main.ts, in insertion order              *)
(*   serverState       role, master_repl_offset, replicas_connections      *)
(*   waitState, noResponseQueue, blockState, transactionState              *)
(*                     the module-level singletons of commands.ts          *)
(*   tasks             the running invocations of execCommand              *)
(*   mq                the microtask queue: the tasks whose await is ready *)
(*   timers            the pending setTimeout callbacks                    *)
(*   nextId            the next promise / timer / task identity            *)
(*   handshakeStep     the replica's handshake position (main.ts)          *)
(*   out               what was written to each socket, in order; each     *)
(*                     write carries a tag saying which command caused it  *)
(*   arrived           how many commands each connection has delivered     *)
(*   now               Date.now()                                          *)
(*   deliveries        how many data events have happened                  *)
(*   log               the history of command executions (for the claims)  *)
(***************************************************************************)
VARIABLES db, serverState, waitState, noResponseQueue, blockState,
          transactionState, tasks, mq, timers, nextId, handshakeStep,
          out, arrived, now, deliveries, log

vars == <<db, serverState, waitState, noResponseQueue, blockState,
          transactionState, tasks, mq, timers, nextId, handshakeStep,
          out, arrived, now, deliveries, log>>

\* The whole state as one record, so that a handler is an operator from
\* worlds to worlds.
World ==
  [db |-> db, serverState |-> serverState, waitState |-> waitState,
   noResponseQueue |-> noResponseQueue, blockState |-> blockState,
   transactionState |-> transactionState, tasks |-> tasks, mq |-> mq,
   timers |-> timers, nextId |-> nextId, handshakeStep |-> handshakeStep,
   out |-> out, arrived |-> arrived, now |-> now, deliveries |-> deliveries,
   log |-> log]

Install(W) ==
  \E w \in {W} :
    /\ db' = w.db
    /\ serverState' = w.serverState
    /\ waitState' = w.waitState
    /\ noResponseQueue' = w.noResponseQueue
    /\ blockState' = w.blockState
    /\ transactionState' = w.transactionState
    /\ tasks' = w.tasks
    /\ mq' = w.mq
    /\ timers' = w.timers
    /\ nextId' = w.nextId
    /\ handshakeStep' = w.handshakeStep
    /\ out' = w.out
    /\ arrived' = w.arrived
    /\ now' = w.now
    /\ deliveries' = w.deliveries
    /\ log' = w.log

\* the connections: clients of this server, and (on a replica) the socket
\* to the master
Conns == {"c1", "c2", "c3", "master"}

NoConn == "null"

(***************************************************************************)
(* What a command function returns: bytes, undefined, or a pending         *)
(* promise.                                                                *)
(***************************************************************************)
Value(bytes) == [kind |-> "value", bytes |-> bytes, promise |-> 0]

Undefined == [kind |-> "undefined", bytes |-> <<>>, promise |-> 0]

Pending(p) == [kind |-> "promise", bytes |-> <<>>, promise |-> p]

Ret(W, response) == [W |-> W, response |-> response]

(***************************************************************************)
(* db: Map<string, DBValue>.                                               *)
(***************************************************************************)
NoExpire == [set |-> FALSE, at |-> 0]

ExpireAt(t) == [set |-> TRUE, at |-> t]

StringValue(key, value, expire) ==
  [key |-> key, type |-> "string", value |-> value, expire |-> expire,
   entries |-> <<>>, lastId |-> <<>>]

StreamValue(key, entries, lastId) ==
  [key |-> key, type |-> "stream", value |-> <<>>, expire |-> NoExpire,
   entries |-> entries, lastId |-> lastId]

dbIndex(d, key) ==
  IF \E i \in 1..Len(d) : d[i].key = key
  THEN CHOOSE i \in 1..Len(d) : d[i].key = key
  ELSE 0

dbHas(d, key) == dbIndex(d, key) # 0

dbGet(d, key) == d[dbIndex(d, key)]

\* Map.prototype.set: an existing key keeps its place
dbSet(d, entry) ==
  IF dbHas(d, entry.key) THEN [d EXCEPT ![dbIndex(d, entry.key)] = entry]
  ELSE Append(d, entry)

(***************************************************************************)
(* Socket writes and promise resolution.                                   *)
(***************************************************************************)
write(W, con, bytes, tag) ==
  [W EXCEPT !.out[con] = Append(@, [data |-> bytes, tag |-> tag])]

RECURSIVE writeEach(_, _, _, _)
writeEach(W, cons, bytes, tag) ==
  IF cons = <<>> THEN W
  ELSE writeEach(write(W, Head(cons), bytes, tag), Tail(cons), bytes, tag)

\* res(value) of the promise p: the task awaiting p gets the value and its
\* continuation is queued; a promise already resolved ignores the call.
Awaiting(W, p) == {t \in DOMAIN W.tasks : W.tasks[t].awaiting = p}

res(W, p, bytes) ==
  IF p = 0 \/ Awaiting(W, p) = {} THEN W
  ELSE LET t == CHOOSE t \in Awaiting(W, p) : TRUE
       IN [W EXCEPT !.tasks[t].awaiting = 0,
                    !.tasks[t].response = Value(bytes),
                    !.mq = Append(@, t)]

clearTimeout(W, timeoutId) ==
  [W EXCEPT !.timers = {tm \in @ : tm.id # timeoutId}]

NoTag == [k |-> "none", conn |-> NoConn, n |-> 0]

ReplyTag(conn, n) == [k |-> "reply", conn |-> conn, n |-> n]

PropagateTag(conn, n) == [k |-> "propagate", conn |-> conn, n |-> n]

GetAckTag(conn, n) == [k |-> "getack", conn |-> conn, n |-> n]

RdbTag(conn, n) == [k |-> "rdb", conn |-> conn, n |-> n]

ErrorTag(conn) == [k |-> "parse-error", conn |-> conn, n |-> 0]

HandshakeTag == [k |-> "handshake", conn |-> "master", n |-> 0]

(***************************************************************************)
(* waitState, blockState and their reset().  A resolvePromise closure is   *)
(* the promise it resolves and the timer it clears; promise 0 is () => {}. *)
(***************************************************************************)
NoResolver == [promise |-> 0, timer |-> 0]

waitStateInit ==
  [isWaiting |-> FALSE, acknowledgeGoal |-> Num(0), acknowledgeCount |-> 0,
   resolvePromise |-> NoResolver]

waitStateReset(W) == [W EXCEPT !.waitState = waitStateInit]

blockStateInit ==
  [isBlocking |-> FALSE, blockingKeys |-> <<>>, resolvePromise |-> NoResolver]

blockStateReset(W) ==
  [W EXCEPT !.blockState.isBlocking = FALSE,
            !.blockState.resolvePromise = NoResolver]

transactionStateInit == [isStarted |-> FALSE, queue |-> <<>>, connection |-> NoConn]

\* propagateToReplicas without the push to noResponseQueue: the variant a
\* check of the absorbed ACKs must tell from the code
propagateKeepingReplies(W, data, noReply, tag) ==
  LET W2 == writeEach(W, W.serverState.replicas_connections, data, tag)
  IN [W2 EXCEPT !.serverState.master_repl_offset = @ + Len(data)]

propagateToReplicas(W, data, noReply, tag) ==
  LET W1 == IF noReply
            THEN [W EXCEPT !.noResponseQueue = @ \o W.serverState.replicas_connections]
            ELSE W
      W2 == writeEach(W1, W.serverState.replicas_connections, data, tag)
  IN [W2 EXCEPT !.serverState.master_repl_offset = @ + Len(data)]

sendRDBFile(W, con, tag) ==
  write(W, con, <<36>> \o NumToString(Len(emptyRDBFile)) \o CRLF \o emptyRDBFile, tag)

(***************************************************************************)
(* History kept for the claims: for every WAIT promise, who issued it,     *)
(* which replicas got its GETACK, which increments of acknowledgeCount     *)
(* happened while it was the registered WAIT, which connections' ACKs      *)
(* arrived while it was unresolved, and the value it resolved to; the      *)
(* writes applied to the store, in order; every call of                    *)
(* propagateToReplicas for a write command; every PSYNC that attached a    *)
(* replica; what the clients sent, as they meant it; every accepted XADD;  *)
(* the bytes of command frames a replica was sent by its master.           *)
(***************************************************************************)
logInit == [waits |-> <<>>, applied |-> <<>>, forwards |-> <<>>, attached |-> <<>>,
            sent |-> <<>>, xadds |-> <<>>, fromMaster |-> 0]

WaitIndex(W, p) ==
  IF \E i \in 1..Len(W.log.waits) : W.log.waits[i].promise = p
  THEN CHOOSE i \in 1..Len(W.log.waits) : W.log.waits[i].promise = p
  ELSE 0

logWaitStart(W, p, ctx, goal, timeout) ==
  [W EXCEPT !.log.waits = Append(@,
     [promise |-> p, conn |-> ctx.conn, n |-> ctx.n, goal |-> goal,
      start |-> W.now, timeout |-> timeout,
      fleet |-> W.serverState.replicas_connections,
      viaExec |-> W.tasks[ctx.task].pc = "exec",
      counted |-> 0, ackFrom |-> <<>>, resolved |-> FALSE, value |-> 0,
      replied |-> 0])]

\* an ACK from ctx.conn arrived: every unresolved WAIT sees it
logAckArrived(W, ctx) ==
  [W EXCEPT !.log.waits =
     [i \in 1..Len(@) |->
        IF @[i].resolved THEN @[i]
        ELSE [@[i] EXCEPT !.ackFrom = Append(@, [conn |-> ctx.conn, at |-> W.now])]]]

\* acknowledgeCount++ ran while promise p was the registered WAIT
logAckCounted(W, p) ==
  IF WaitIndex(W, p) = 0 THEN W
  ELSE [W EXCEPT !.log.waits[WaitIndex(W, p)].counted = @ + 1]

\* res(serialazeInteger(value)) was called for promise p
logWaitResolved(W, p, value) ==
  IF WaitIndex(W, p) = 0 \/ W.log.waits[WaitIndex(W, p)].resolved THEN W
  ELSE [W EXCEPT !.log.waits[WaitIndex(W, p)].resolved = TRUE,
                 !.log.waits[WaitIndex(W, p)].value = value]

logApplied(W, ctx, key, value) ==
  [W EXCEPT !.log.applied = Append(@, [conn |-> ctx.conn, n |-> ctx.n,
                                       key |-> key, value |-> value])]

\* the bytes of command i of a parsed buffer: its own frame
ownFrame(data, results, i) ==
  LET start == Len(Concat([j \in 1..(i - 1) |-> [x \in 1..results[j].length |-> 0]]))
  IN subarray(data, start, start + results[i].length)

\* propagateToReplicas(data) was called for command i of `task`, answered
\* with `response`; grew is what it added to master_repl_offset
logForward(W, Wbefore, task, response) ==
  [W EXCEPT !.log.forwards = Append(@,
     [conn |-> task.conn, n |-> task.base + task.i, response |-> response,
      data |-> task.data, frame |-> ownFrame(task.data, task.results, task.i),
      fleet |-> Wbefore.serverState.replicas_connections,
      grew |-> W.serverState.master_repl_offset
               - Wbefore.serverState.master_repl_offset])]

\* XADD stored id in a stream whose lastId was prev
logXadd(W, streamKey, prev, id) ==
  [W EXCEPT !.log.xadds = Append(@, [key |-> streamKey, prev |-> prev, id |-> id])]

\* connection was pushed to replicas_connections
logAttached(W, connection) ==
  [W EXCEPT !.log.attached = Append(@,
     [conn |-> connection, applied |-> Len(W.log.applied),
      forwards |-> Len(W.log.forwards)])]

(***************************************************************************)
(* The command table.  `ctx` names the calling task, its connection and    *)
(* the arrival number of the command on that connection.                   *)
(***************************************************************************)
cmdPING(W, args, ctx) == Ret(W, Value(serialazeSimpleString(S_PONG)))

cmdECHO(W, args, ctx) ==
  IF ~Falsy(At(args, 0)) THEN Ret(W, Value(serialazeBulkString(args[1])))
  ELSE Ret(W, Value(serialazeSimpleError(E_EchoArity)))

\* BigInt(args[3]) throws on text that is no integer
Throws == [kind |-> "throw", bytes |-> <<>>, promise |-> 0]

cmdSET(W, args, ctx) ==
  IF Len(args) < 2 THEN Ret(W, Value(serialazeSimpleError(E_SetArity)))
  ELSE LET key == args[1]
           value == args[2]
       IN IF ~Falsy(At(args, 2)) /\ toUpperCase(args[3]) = S_PX
          THEN IF Falsy(At(args, 3))
               THEN Ret(W, Value(serialazeSimpleString(E_SyntaxError)))
               ELSE IF Number(args[4]).nan THEN Ret(W, Throws)
               ELSE Ret(logApplied([W EXCEPT !.db = dbSet(@,
                          StringValue(key, value, ExpireAt(W.now + Number(args[4]).v)))],
                          ctx, key, value),
                        Value(serialazeSimpleString(S_OK)))
          ELSE Ret(logApplied([W EXCEPT !.db = dbSet(@, StringValue(key, value, NoExpire))],
                              ctx, key, value),
                   Value(serialazeSimpleString(S_OK)))

\* entry.expire && entry.expire - BigInt(Date.now()) <= 0
Expired(entry, t) == entry.expire.set /\ entry.expire.at # 0 /\ entry.expire.at - t <= 0

cmdGET(W, args, ctx) ==
  LET key == At(args, 0)
  IN IF Falsy(key) \/ ~dbHas(W.db, key) THEN Ret(W, Value(serialazeBulkString(<<>>)))
     ELSE LET entry == dbGet(W.db, key)
          IN IF entry.type = "string"
             THEN IF Expired(entry, W.now) THEN Ret(W, Value(serialazeBulkString(<<>>)))
                  ELSE Ret(W, Value(serialazeBulkString(entry.value)))
             ELSE Ret(W, Value(serialazeSimpleError(E_WrongType)))

cmdKEYS(W, args, ctx) ==
  LET arg == At(args, 0)
  IN IF Falsy(arg) THEN Ret(W, Value(serialazeSimpleError(E_KeysArity)))
     ELSE IF arg = S_STAR
     THEN Ret(W, Value(serialazeArray([i \in 1..Len(W.db) |->
                                         serialazeBulkString(W.db[i].key)])))
     ELSE Ret(W, Value(serialazeBulkString(<<>>)))
cmdREPLCONF(W, args, ctx) ==
  IF W.serverState.role = "slave" /\ toUpperCase(args[1]) = S_GETACK
  THEN IF toUpperCase(args[2]) # S_STAR
       THEN Ret(W, Value(serialazeSimpleString(E_SyntaxError)))
       ELSE Ret(W, Value(serialazeBulkStringArray(
                  <<S_REPLCONF, S_ACK, NumToString(W.serverState.master_repl_offset)>>)))
  ELSE IF W.serverState.role = "master" /\ toUpperCase(args[1]) = S_ACK
          /\ W.waitState.isWaiting
  THEN LET p == W.waitState.resolvePromise.promise
           W1 == logAckCounted(logAckArrived(
                    [W EXCEPT !.waitState.acknowledgeCount = @ + 1], ctx), p)
       IN IF NumLe(W1.waitState.acknowledgeGoal, Num(W1.waitState.acknowledgeCount))
          THEN \* the wrapped resolvePromise of WAIT: clearTimeout, res, reset
               Ret(waitStateReset(
                     res(logWaitResolved(
                           clearTimeout(W1, W1.waitState.resolvePromise.timer),
                           p, W1.waitState.acknowledgeCount),
                         p, serialazeInteger(W1.waitState.acknowledgeCount))),
                   Undefined)
          ELSE Ret(W1, Undefined)
  ELSE IF W.serverState.role = "master" /\ toUpperCase(args[1]) = S_ACK
  THEN Ret(logAckArrived(W, ctx), Value(serialazeSimpleString(S_OK)))
  ELSE Ret(W, Value(serialazeSimpleString(S_OK)))

cmdPSYNC(W, args, ctx) ==
  Ret(W, Value(serialazeSimpleString(
        S_FULLRESYNC_ \o S_master_replid \o <<32>>
        \o NumToString(W.serverState.master_repl_offset))))

\* the frame WAIT propagates
GetAckFrame == serialazeBulkStringArray(<<S_REPLCONF, S_GETACK, S_STAR>>)

cmdWAIT(W, args, ctx) ==
  LET acknowledgeGoal == Number(At(args, 0))
      timeout == Number(At(args, 1))
  IN IF NumLe(acknowledgeGoal, Num(0)) THEN Ret(W, Value(serialazeInteger(0)))
     ELSE IF W.serverState.master_repl_offset = 0
     THEN Ret(W, Value(serialazeInteger(Len(W.serverState.replicas_connections))))
     ELSE LET p == W.nextId
              timeoutId == W.nextId + 1
              W1 == [W EXCEPT !.nextId = @ + 2,
                              !.waitState.isWaiting = TRUE,
                              !.waitState.acknowledgeGoal = acknowledgeGoal,
                              !.waitState.acknowledgeCount = 0]
              W2 == propagateToReplicas(logWaitStart(W1, p, ctx, acknowledgeGoal, timeout),
                                        GetAckFrame, TRUE, GetAckTag(ctx.conn, ctx.n))
              \* setTimeout(..., NaN) is setTimeout(..., 0)
              W3 == [W2 EXCEPT !.timers = @ \cup
                       {[id |-> timeoutId, kind |-> "wait", promise |-> p,
                         due |-> W.now + (IF timeout.nan \/ timeout.v < 0 THEN 0 ELSE timeout.v)]},
                               !.waitState.resolvePromise =
                                  [promise |-> p, timer |-> timeoutId]]
          IN Ret(W3, Pending(p))

cmdTYPE(W, args, ctx) ==
  LET key == At(args, 0)
  IN IF Falsy(key) THEN Ret(W, Value(serialazeSimpleError(E_TypeArity)))
     ELSE IF ~dbHas(W.db, key) THEN Ret(W, Value(serialazeSimpleString(S_none)))
     ELSE Ret(W, Value(serialazeSimpleString(
                IF dbGet(W.db, key).type = "string" THEN S_string ELSE S_stream)))

cmdINCR(W, args, ctx) ==
  LET key == At(args, 0)
  IN IF Falsy(key) THEN Ret(W, Value(serialazeSimpleError(E_IncrArity)))
     ELSE IF ~dbHas(W.db, key)
     THEN Ret(cmdSET(W, <<key, <<49>>>>, ctx).W, Value(serialazeInteger(1)))
     ELSE LET entry == dbGet(W.db, key)
          IN IF entry.type # "string" THEN Ret(W, Value(serialazeSimpleError(E_WrongType)))
             ELSE IF Number(entry.value).nan
             THEN Ret(W, Value(serialazeSimpleError(E_NotInteger)))
             ELSE LET newValue == Number(entry.value).v + 1
                  IN Ret([W EXCEPT !.db[dbIndex(W.db, key)].value = NumToString(newValue)],
                         Value(serialazeInteger(newValue)))

cmdMULTI(W, args, ctx) ==
  Ret([W EXCEPT !.transactionState.isStarted = TRUE],
      Value(serialazeSimpleString(S_OK)))

(***************************************************************************)
(* Streams.                                                                *)
(***************************************************************************)
\* `${x}` for a number that may be NaN
JsNumToString(x) == IF x.nan THEN <<78, 97, 78>> ELSE NumToString(x.v)

\* x + 1 for a number that may be NaN
NumInc(x) == IF x.nan THEN NaN ELSE Num(x.v + 1)

\* id.split("-").map(Number), then [0] and [1] (undefined acts as NaN)
IdTime(id) == Number(At(Split(id, 45), 0))

IdSeq(id) == Number(At(Split(id, 45), 1))

\* x || 0
OrZero(x) == IF x.nan THEN 0 ELSE x.v

IdError(msg) == [err |-> msg, id |-> <<>>]

IdOk(id) == [err |-> NoError, id |-> id]

\* validateEntryId without its last comparison (time equal, seq not greater):
\* the variant a check of the refusals must tell from the code
validateEntryIdNoSeq(newEntryId, lastEntryId, timeStamp) ==
  LET lastTime == IdTime(lastEntryId)
      lastSeqNumber == IdSeq(lastEntryId)
      time == At(Split(newEntryId, 45), 0)
      seqNumber == At(Split(newEntryId, 45), 1)
  IN IF newEntryId = S_STAR
     THEN IdOk(NumToString(timeStamp) \o <<45>>
               \o JsNumToString(IF NumEq(lastTime, Num(timeStamp))
                                THEN NumInc(lastSeqNumber) ELSE Num(0)))
     ELSE IF Number(time).nan THEN IdError(E_InvalidStreamId)
     ELSE IF NumLe(Number(time), Num(0)) /\ NumLe(Number(seqNumber), Num(0))
     THEN IdError(E_IdZero)
     ELSE IF NumLt(Number(time), lastTime) THEN IdError(E_IdSmaller)
     ELSE IF seqNumber = S_STAR
     THEN IdOk(time \o <<45>>
               \o JsNumToString(IF NumEq(Number(time), lastTime) THEN NumInc(lastSeqNumber)
                                ELSE IF time = <<48>> THEN Num(1)
                                ELSE Num(0)))
     ELSE IdOk(newEntryId)

validateEntryId(newEntryId, lastEntryId, timeStamp) ==
  LET lastTime == IdTime(lastEntryId)
      lastSeqNumber == IdSeq(lastEntryId)
      time == At(Split(newEntryId, 45), 0)
      seqNumber == At(Split(newEntryId, 45), 1)
  IN IF newEntryId = S_STAR
     THEN IdOk(NumToString(timeStamp) \o <<45>>
               \o JsNumToString(IF NumEq(lastTime, Num(timeStamp))
                                THEN NumInc(lastSeqNumber) ELSE Num(0)))
     ELSE IF Number(time).nan THEN IdError(E_InvalidStreamId)
     ELSE IF NumLe(Number(time), Num(0)) /\ NumLe(Number(seqNumber), Num(0))
     THEN IdError(E_IdZero)
     ELSE IF NumLt(Number(time), lastTime) THEN IdError(E_IdSmaller)
     ELSE IF seqNumber = S_STAR
     THEN IdOk(time \o <<45>>
               \o JsNumToString(IF NumEq(Number(time), lastTime) THEN NumInc(lastSeqNumber)
                                ELSE IF time = <<48>> THEN Num(1)
                                ELSE Num(0)))
     ELSE IF NumEq(Number(time), lastTime) /\ NumLe(Number(seqNumber), lastSeqNumber)
     THEN IdError(E_IdSmaller)
     ELSE IdOk(newEntryId)

\* the field/value pairs of XADD's arguments from index i on (0-based);
\* ok is FALSE when a field has no value
RECURSIVE xaddValues(_, _)
xaddValues(args, i) ==
  IF i >= Len(args) THEN [ok |-> TRUE, values |-> <<>>]
  ELSE IF Falsy(At(args, i + 1)) THEN [ok |-> FALSE, values |-> <<>>]
  ELSE LET rest == xaddValues(args, i + 2)
       IN [ok |-> rest.ok,
           values |-> <<[key |-> args[i + 1], value |-> args[i + 2]]>> \o rest.values]

\* Map.prototype.set on a stream's entries
streamSet(entries, id, values) ==
  IF \E i \in 1..Len(entries) : entries[i].id = id
  THEN [i \in 1..Len(entries) |->
          IF entries[i].id = id THEN [id |-> id, values |-> values] ELSE entries[i]]
  ELSE Append(entries, [id |-> id, values |-> values])

RECURSIVE flattenPairs(_)
flattenPairs(values) ==
  IF values = <<>> THEN <<>>
  ELSE <<Head(values).key, Head(values).value>> \o flattenPairs(Tail(values))

\* x || Infinity
OrInfinity(x) == IF x.nan \/ x.v = 0 THEN [inf |-> TRUE, v |-> 0] ELSE [inf |-> FALSE, v |-> x.v]

\* x > e for a number x and a bound e that may be Infinity
NumGt(x, e) == ~x.nan /\ ~e.inf /\ x.v > e.v

\* the loop of XRANGE over the entries of the stream
RECURSIVE xrangeEntries(_, _, _, _, _)
xrangeEntries(entries, startTime, startSeq, endTime, endSeq) ==
  IF entries = <<>> THEN <<>>
  ELSE LET e == Head(entries)
           time == IdTime(e.id)
           seq == IdSeq(e.id)
           rest == xrangeEntries(Tail(entries), startTime, startSeq, endTime, endSeq)
       IN IF NumLt(time, Num(startTime)) \/ NumGt(time, endTime) THEN rest
          ELSE IF NumEq(time, Num(startTime))
                  /\ (NumLt(seq, Num(startSeq)) \/ NumGt(seq, endSeq)) THEN rest
          ELSE <<serialazeArray(<<serialazeBulkString(e.id),
                                  serialazeBulkStringArray(flattenPairs(e.values))>>)>>
               \o rest

cmdXRANGE(W, args, ctx) ==
  LET streamKey == At(args, 0)
      startId == At(args, 1)
      endId == At(args, 2)
  IN IF Falsy(streamKey) THEN Ret(W, Value(serialazeSimpleError(E_XrangeArity)))
     ELSE IF ~dbHas(W.db, streamKey) THEN Ret(W, Value(serialazeArray(<<>>)))
     ELSE IF dbGet(W.db, streamKey).type # "stream"
     THEN Ret(W, Value(serialazeSimpleError(E_WrongType)))
     ELSE IF Falsy(startId) \/ Falsy(endId)
     THEN Ret(W, Value(serialazeSimpleError(E_XrangeArity)))
     ELSE Ret(W, Value(serialazeArray(
                xrangeEntries(dbGet(W.db, streamKey).entries,
                              OrZero(IdTime(startId)), OrZero(IdSeq(startId)),
                              OrInfinity(IdTime(endId)), OrInfinity(IdSeq(endId))))))
\* the inner loop of XREAD: the serialized entries of one stream from startId
RECURSIVE xreadEntries(_, _, _)
xreadEntries(entries, startTime, startSeq) ==
  IF entries = <<>> THEN <<>>
  ELSE LET e == Head(entries)
           time == IdTime(e.id)
           seq == IdSeq(e.id)
           rest == xreadEntries(Tail(entries), startTime, startSeq)
       IN IF NumLt(time, Num(startTime)) THEN rest
          ELSE IF NumEq(time, Num(startTime)) /\ NumLt(seq, Num(startSeq)) THEN rest
          ELSE <<serialazeArray(<<serialazeBulkString(e.id),
                                  serialazeBulkStringArray(flattenPairs(e.values))>>)>>
               \o rest

\* the classification loop of XREAD over args[1..]
RECURSIVE xreadKeys(_)
xreadKeys(args) ==
  IF args = <<>> THEN <<>>
  ELSE IF Includes(Head(args), 45) \/ Head(args) = S_DOLLAR THEN xreadKeys(Tail(args))
  ELSE <<Head(args)>> \o xreadKeys(Tail(args))

RECURSIVE xreadIds(_)
xreadIds(args) ==
  IF args = <<>> THEN <<>>
  ELSE IF Includes(Head(args), 45) \/ Head(args) = S_DOLLAR
  THEN <<Head(args)>> \o xreadIds(Tail(args))
  ELSE xreadIds(Tail(args))

\* the loop over streamKeys: the serialized streams, or a WRONGTYPE error
RECURSIVE xreadStreams(_, _, _, _)
xreadStreams(d, streamKeys, startIds, i) ==
  IF i > Len(streamKeys) THEN [err |-> FALSE, streams |-> <<>>]
  ELSE IF ~dbHas(d, streamKeys[i]) THEN xreadStreams(d, streamKeys, startIds, i + 1)
  ELSE LET stream == dbGet(d, streamKeys[i])
       IN IF stream.type # "stream" THEN [err |-> TRUE, streams |-> <<>>]
          ELSE LET startId == IF startIds[i] = S_DOLLAR THEN stream.lastId ELSE startIds[i]
                   rest == xreadStreams(d, streamKeys, startIds, i + 1)
                   one == serialazeArray(<<serialazeBulkString(streamKeys[i]),
                            serialazeArray(xreadEntries(stream.entries,
                                                        OrZero(IdTime(startId)),
                                                        OrZero(IdSeq(startId))))>>)
               IN IF rest.err THEN rest
                  ELSE [err |-> FALSE, streams |-> <<one>> \o rest.streams]

\* XREAD without BLOCK: what commands.XREAD(args) returns synchronously
xreadNow(d, args) ==
  IF At(args, 0) # S_streams THEN serialazeSimpleError(E_SyntaxError)
  ELSE LET streamKeys == xreadKeys(Tail(args))
           startIds == xreadIds(Tail(args))
       IN IF Len(streamKeys) # Len(startIds) THEN serialazeSimpleError(E_XreadArity)
          ELSE LET r == xreadStreams(d, streamKeys, startIds, 1)
               IN IF r.err THEN serialazeSimpleError(E_WrongType)
                  ELSE serialazeArray(r.streams)

cmdXREAD(W, args, ctx) ==
  LET isBlocked == At(args, 0) = S_block
      timeout == At(args, 1)
      rest == IF isBlocked THEN SubSeq(args, 3, Len(args)) ELSE args
  IN IF isBlocked /\ (Falsy(timeout) \/ Number(timeout).nan)
     THEN Ret(W, Value(serialazeSimpleError(E_XreadArity)))
     ELSE IF At(rest, 0) # S_streams THEN Ret(W, Value(serialazeSimpleError(E_SyntaxError)))
     ELSE LET streamKeys == xreadKeys(Tail(rest))
              startIds == xreadIds(Tail(rest))
          IN IF Len(streamKeys) # Len(startIds)
             THEN Ret(W, Value(serialazeSimpleError(E_XreadArity)))
             ELSE IF xreadStreams(W.db, streamKeys, startIds, 1).err
             THEN Ret(W, Value(serialazeSimpleError(E_WrongType)))
             ELSE IF ~isBlocked THEN Ret(W, Value(xreadNow(W.db, rest)))
             ELSE LET p == W.nextId
                      armed == Number(timeout).v > 0
                      timeoutId == IF armed THEN W.nextId + 1 ELSE 0
                  IN Ret([W EXCEPT
                            !.nextId = @ + 2,
                            !.blockState.isBlocking = TRUE,
                            !.blockState.blockingKeys = streamKeys,
                            !.blockState.resolvePromise = [promise |-> p, timer |-> timeoutId],
                            !.timers = IF armed
                                       THEN @ \cup {[id |-> timeoutId, kind |-> "block",
                                                     promise |-> p,
                                                     due |-> W.now + Number(timeout).v]}
                                       ELSE @],
                         Pending(p))

\* blockState.resolvePromise(addedKey, startId) as XADD calls it: the
\* wrapper installed by XREAD clears the timer, resolves with a fresh XREAD
\* of the added key, and resets waitState.
wakeBlockedXread(W, streamKey, newEntryId) ==
  IF W.blockState.isBlocking /\ \E i \in 1..Len(W.blockState.blockingKeys) :
                                    W.blockState.blockingKeys[i] = streamKey
  THEN IF W.blockState.resolvePromise.promise = 0 THEN W
       ELSE waitStateReset(
              res(clearTimeout(W, W.blockState.resolvePromise.timer),
                  W.blockState.resolvePromise.promise,
                  xreadNow(W.db, <<S_streams, streamKey, newEntryId>>)))
  ELSE W

cmdXADD(W, args, ctx) ==
  LET streamKey == At(args, 0)
      entryId == At(args, 1)
  IN IF Falsy(streamKey) \/ Falsy(entryId) THEN Ret(W, Value(serialazeSimpleError(E_XaddArity)))
     ELSE With(xaddValues(args, 2), LAMBDA v :
       IF ~v.ok THEN Ret(W, Value(serialazeSimpleError(E_XaddArity)))
       ELSE IF dbHas(W.db, streamKey)
       THEN With(dbGet(W.db, streamKey), LAMBDA existingEntry :
              IF existingEntry.type = "string"
              THEN Ret(W, Value(serialazeSimpleError(E_WrongType)))
              ELSE With(validateEntryId(entryId, existingEntry.lastId, W.now), LAMBDA r :
                     IF r.err # NoError THEN Ret(W, Value(serialazeSimpleError(r.err)))
                     ELSE Ret(wakeBlockedXread(
                                logXadd([W EXCEPT !.db[dbIndex(W.db, streamKey)] =
                                           StreamValue(streamKey,
                                                       streamSet(existingEntry.entries,
                                                                 r.id, v.values),
                                                       r.id)],
                                        streamKey, existingEntry.lastId, r.id),
                                streamKey, r.id),
                              Value(serialazeBulkString(r.id)))))
       ELSE With(validateEntryId(entryId, S_ZeroZero, W.now), LAMBDA r :
              IF r.err # NoError THEN Ret(W, Value(serialazeSimpleError(r.err)))
              ELSE Ret(wakeBlockedXread(
                         logXadd([W EXCEPT !.db = dbSet(@,
                                    StreamValue(streamKey,
                                                <<[id |-> r.id, values |-> v.values]>>,
                                                r.id))],
                                 streamKey, S_ZeroZero, r.id),
                         streamKey, r.id),
                       Value(serialazeBulkString(r.id)))))

(***************************************************************************)
(* execCommand.  A task is one invocation: its connection, its buffer, the *)
(* parsed commands, the index i of the command in hand, and where it       *)
(* stands:                                                                 *)
(*   pc = "outer"  at `await Promise.resolve(response)` of the for loop    *)
(*   pc = "exec"   inside commands.EXEC, at the await of queued command    *)
(*                 number execJ                                            *)
(* A task with awaiting # 0 waits for that promise; otherwise it is in mq. *)
(***************************************************************************)
writeCommands == {S_SET}

KnownCommands ==
  {S_PING, S_ECHO, S_SET, S_GET, S_KEYS, S_REPLCONF, S_PSYNC, S_WAIT, S_TYPE, S_XADD,
   S_XRANGE, S_XREAD, S_INCR, S_MULTI, S_EXEC, S_INFO}

\* commands.INFO: the one section, whatever the argument is
InfoValues(W) ==
  S_role_ \o (IF W.serverState.role = "master" THEN S_master ELSE S_slave)
  \o S_master_replid_ \o S_master_replid
  \o S_master_repl_offset_ \o NumToString(W.serverState.master_repl_offset)

cmdINFO(W, args, ctx) ==
  IF At(args, 0) = S_replication
  THEN Ret(W, Value(serialazeBulkString(S_ReplicationHead \o InfoValues(W))))
  ELSE Ret(W, Value(serialazeBulkString(S_ReplicationHead \o InfoValues(W))))

\* fun(command.args) for every command but EXEC
callCommand(W, name, args, ctx) ==
  CASE name = S_PING -> cmdPING(W, args, ctx)
    [] name = S_ECHO -> cmdECHO(W, args, ctx)
    [] name = S_SET -> cmdSET(W, args, ctx)
    [] name = S_GET -> cmdGET(W, args, ctx)
    [] name = S_KEYS -> cmdKEYS(W, args, ctx)
    [] name = S_REPLCONF -> cmdREPLCONF(W, args, ctx)
    [] name = S_PSYNC -> cmdPSYNC(W, args, ctx)
    [] name = S_WAIT -> cmdWAIT(W, args, ctx)
    [] name = S_TYPE -> cmdTYPE(W, args, ctx)
    [] name = S_XADD -> cmdXADD(W, args, ctx)
    [] name = S_XRANGE -> cmdXRANGE(W, args, ctx)
    [] name = S_XREAD -> cmdXREAD(W, args, ctx)
    [] name = S_INCR -> cmdINCR(W, args, ctx)
    [] name = S_MULTI -> cmdMULTI(W, args, ctx)
    [] name = S_INFO -> cmdINFO(W, args, ctx)

Ctx(W, t) ==
  [task |-> t, conn |-> W.tasks[t].conn, n |-> W.tasks[t].base + W.tasks[t].i]

removeTask(W, t) ==
  [W EXCEPT !.tasks = [u \in DOMAIN @ \ {t} |-> @[u]]]

\* `await`: a ready value passes through the microtask queue, a pending
\* promise parks the task, an exception rejects execCommand's own promise.
awaitResponse(r, t) ==
  IF r.response.kind = "throw" THEN removeTask(r.W, t)
  ELSE IF r.response.kind = "promise"
  THEN [r.W EXCEPT !.tasks[t].response = r.response,
                   !.tasks[t].awaiting = r.response.promise,
                   !.tasks[t].lastPromise = r.response.promise]
  ELSE [r.W EXCEPT !.tasks[t].response = r.response,
                   !.tasks[t].lastPromise = 0,
                   !.mq = Append(@, t)]

\* commands.EXEC from the top of its for loop: call the next queued command
\* and await it, or clear the transaction and return the array.
execLoop(W, t) ==
  LET j == W.tasks[t].execJ + 1
  IN IF j <= Len(W.transactionState.queue)
     THEN LET c == W.transactionState.queue[j]
          IN awaitResponse(callCommand([W EXCEPT !.tasks[t].execJ = j],
                                       c.name, c.args, Ctx(W, t)), t)
     ELSE awaitResponse(
            Ret([W EXCEPT !.transactionState = transactionStateInit,
                          !.tasks[t].pc = "outer"],
                Value(serialazeArray(W.tasks[t].execResponses))), t)

\* the resumption of commands.EXEC after its await
execResume(W, t) ==
  execLoop(IF W.tasks[t].response.kind = "undefined" THEN W
           ELSE [W EXCEPT !.tasks[t].execResponses = Append(@, W.tasks[t].response.bytes)],
           t)

cmdEXEC(W, t) ==
  IF ~W.transactionState.isStarted
  THEN awaitResponse(Ret(W, Value(serialazeSimpleError(E_ExecWithoutMulti))), t)
  ELSE execLoop([W EXCEPT !.tasks[t].pc = "exec",
                          !.tasks[t].execJ = 0,
                          !.tasks[t].execResponses = <<>>], t)

\* lines 461-476 of execCommand for command i of task t, up to the await
dispatch(W, t) ==
  LET task == W.tasks[t]
      command == task.results[task.i]
      commandName == toUpperCase(command.name)
  IN IF commandName \notin KnownCommands
     THEN awaitResponse(Ret(W, Value(serialazeSimpleError(
                                       E_UnknownCommand_ \o command.name))), t)
     ELSE IF W.transactionState.isStarted
             /\ W.transactionState.connection = task.conn
             /\ commandName # S_EXEC
     THEN awaitResponse(
            Ret([W EXCEPT !.transactionState.queue =
                             Append(@, [name |-> commandName, args |-> command.args])],
                Value(serialazeSimpleString(S_QUEUED))), t)
     ELSE IF commandName = S_EXEC THEN cmdEXEC(W, t)
     ELSE awaitResponse(callCommand(W, commandName, command.args, Ctx(W, t)), t)

\* the end of an iteration: the next command, or the end of execCommand
nextCommand(W, t) ==
  IF W.tasks[t].i < Len(W.tasks[t].results)
  THEN dispatch([W EXCEPT !.tasks[t].i = @ + 1], t)
  ELSE removeTask(W, t)

logWaitReplied(W, t) ==
  LET task == W.tasks[t]
      k == WaitIndex(W, task.lastPromise)
  IN IF task.results[task.i].name = S_WAIT /\ task.lastPromise # 0 /\ k # 0
     THEN [W EXCEPT !.log.waits[k].replied = @ + 1]
     ELSE W

\* lines 485-497 of execCommand: the master writes the reply, attaches a
\* replica after PSYNC, records the owner of a transaction after MULTI,
\* and propagates a write command
afterAwaitMaster(W, t, commandName, tag) ==
  With(logWaitReplied(write(W, tag.conn, W.tasks[t].response.bytes, tag), t), LAMBDA W1 :
    With(IF commandName = S_PSYNC
         THEN logAttached(
                [sendRDBFile(W1, tag.conn, RdbTag(tag.conn, tag.n))
                   EXCEPT !.serverState.replicas_connections = Append(@, tag.conn)],
                tag.conn)
         ELSE IF commandName = S_MULTI
         THEN [W1 EXCEPT !.transactionState.connection = tag.conn]
         ELSE W1, LAMBDA W2 :
      IF commandName \in writeCommands
      THEN logForward(propagateToReplicas(W2, W2.tasks[t].data, FALSE,
                                          PropagateTag(tag.conn, tag.n)),
                      W2, W2.tasks[t], W2.tasks[t].response.bytes)
      ELSE W2))

\* lines 498-506 of execCommand: the replica answers its clients, answers
\* the master's REPLCONF, and counts the bytes of a command of the master
afterAwaitSlave(W, t, commandName, tag) ==
  With(IF commandName = S_REPLCONF \/ ~W.tasks[t].fromMaster
       THEN logWaitReplied(write(W, tag.conn, W.tasks[t].response.bytes, tag), t)
       ELSE W, LAMBDA W1 :
    IF W1.tasks[t].fromMaster
    THEN [W1 EXCEPT !.serverState.master_repl_offset =
                       @ + W1.tasks[t].results[W1.tasks[t].i].length]
    ELSE W1)

\* lines 477-506 of execCommand for command i of task t, after the await
afterAwait(W, t) ==
  LET task == W.tasks[t]
      commandName == toUpperCase(task.results[task.i].name)
      tag == ReplyTag(task.conn, task.base + task.i)
  IN IF task.response.kind = "undefined" THEN removeTask(W, t)
     ELSE IF W.serverState.role = "master" /\ IndexOf(W.noResponseQueue, task.conn) # 0
     THEN removeTask([W EXCEPT !.noResponseQueue = RemoveAt(@, IndexOf(@, task.conn))], t)
     ELSE nextCommand(IF W.serverState.role = "master"
                      THEN afterAwaitMaster(W, t, commandName, tag)
                      ELSE afterAwaitSlave(W, t, commandName, tag), t)

\* execCommand(data, connection, fromMaster) up to its first await
execCommand(W, data, connection, fromMaster) ==
  With(parse(data), LAMBDA r :
    IF r.err # NoError
    THEN write(W, connection, serialazeSimpleError(r.err), ErrorTag(connection))
    ELSE IF r.commands = <<>> THEN W
    ELSE dispatch(
           [W EXCEPT !.nextId = @ + 1,
                     !.arrived[connection] = @ + Len(r.commands),
                     !.tasks = @ @@ (W.nextId :>
                                       [conn |-> connection, data |-> data,
                                        fromMaster |-> fromMaster,
                                        results |-> r.commands, i |-> 1,
                                        pc |-> "outer", response |-> Undefined,
                                        awaiting |-> 0, lastPromise |-> 0,
                                        base |-> W.arrived[connection],
                                        execJ |-> 0, execResponses |-> <<>>])],
           W.nextId))

\* one microtask: the continuation of the task at the head of the queue
runMicrotask(W) ==
  LET t == Head(W.mq)
      W1 == [W EXCEPT !.mq = Tail(@)]
  IN IF W.tasks[t].pc = "exec" THEN execResume(W1, t) ELSE afterAwait(W1, t)

\* fireTimer without blockState.reset() in the callback of XREAD: the
\* variant a check of the cleared registration must tell from the code
fireTimerKeepingBlock(W, tm) ==
  LET W1 == [W EXCEPT !.timers = @ \ {tm}]
  IN IF tm.kind = "wait"
     THEN waitStateReset(res(logWaitResolved(W1, tm.promise, W.waitState.acknowledgeCount),
                             tm.promise,
                             serialazeInteger(W.waitState.acknowledgeCount)))
     ELSE res(W1, tm.promise, serialazeBulkString(<<>>))

\* the callbacks given to setTimeout by WAIT and by XREAD
fireTimer(W, tm) ==
  LET W1 == [W EXCEPT !.timers = @ \ {tm}]
  IN IF tm.kind = "wait"
     THEN waitStateReset(res(logWaitResolved(W1, tm.promise, W.waitState.acknowledgeCount),
                             tm.promise,
                             serialazeInteger(W.waitState.acknowledgeCount)))
     ELSE blockStateReset(res(W1, tm.promise, serialazeBulkString(<<>>)))

(***************************************************************************)
(* The environment: well-formed frames as a client encodes them (every     *)
(* argument a bulk string with its byte length), and the bounds of the     *)
(* exploration.                                                            *)
(***************************************************************************)
ClientBulk(arg) ==
  <<36>> \o NumToString(Len(Utf8Encode(arg))) \o CRLF \o Utf8Encode(arg) \o CRLF

ClientFrame(args) ==
  <<42>> \o NumToString(Len(args)) \o CRLF
  \o Concat([i \in 1..Len(args) |-> ClientBulk(args[i])])

\* how many data events a behaviour of Spec holds
MaxDeliveries == 5

\* how far the clock runs
MaxNow == 3

\* "k", "v", "w"
KeyK == <<107>>

ValV == <<118>>

ValW == <<119>>

F_SET_k_v == ClientFrame(<<S_SET, KeyK, ValV>>)

F_SET_k_w == ClientFrame(<<S_SET, KeyK, ValW>>)

F_SET_k == ClientFrame(<<S_SET, KeyK>>)

F_GET_k == ClientFrame(<<S_GET, KeyK>>)

F_MULTI == ClientFrame(<<S_MULTI>>)

F_EXEC == ClientFrame(<<S_EXEC>>)

F_PSYNC == ClientFrame(<<S_PSYNC, S_QMARK, S_MINUS1>>)

F_PING == ClientFrame(<<S_PING>>)

(***************************************************************************)
(* Initial state: the module-level initialisers of main.ts and commands.ts *)
(* for a server started without --replicaof and without an RDB file.       *)
(***************************************************************************)
InitCommon ==
  /\ db = <<>>
  /\ waitState = waitStateInit
  /\ noResponseQueue = <<>>
  /\ blockState = blockStateInit
  /\ transactionState = transactionStateInit
  /\ tasks = <<>>
  /\ mq = <<>>
  /\ timers = {}
  /\ nextId = 1
  /\ out = [c \in Conns |-> <<>>]
  /\ arrived = [c \in Conns |-> 0]
  /\ now = 1
  /\ deliveries = 0
  /\ log = logInit

Init ==
  /\ InitCommon
  /\ serverState = [role |-> "master", master_repl_offset |-> 0,
                    replicas_connections |-> <<>>]
  /\ handshakeStep = "NONE"

(***************************************************************************)
(* Actions.  A data event and a timer are macrotasks: they run only when   *)
(* the microtask queue is empty.                                           *)
(***************************************************************************)
\* connection.on("data", ...) of the server socket
Deliver(c, data, bound) ==
  /\ mq = <<>>
  /\ deliveries < bound
  /\ Install(execCommand([World EXCEPT !.deliveries = @ + 1], data, c, FALSE))

RunMicrotask ==
  /\ mq # <<>>
  /\ Install(runMicrotask(World))

FireTimer ==
  /\ mq = <<>>
  /\ \E tm \in timers :
       /\ tm.due <= now
       /\ Install(fireTimer(World, tm))

Tick ==
  /\ mq = <<>>
  /\ now < MaxNow
  /\ now' = now + 1
  /\ UNCHANGED <<db, serverState, waitState, noResponseQueue, blockState,
                 transactionState, tasks, mq, timers, nextId, handshakeStep,
                 out, arrived, deliveries, log>>

(***************************************************************************)
(* Spec: a master, two clients c1 and c2, and c3 that attaches as a        *)
(* replica.  The clients write, read and run transactions.                 *)
(***************************************************************************)
Inputs ==
  ({"c1"} \X {F_SET_k_v, F_SET_k, F_MULTI, F_EXEC, F_SET_k_v \o F_GET_k})
  \cup ({"c2"} \X {F_SET_k_w, F_MULTI, F_EXEC})
  \cup ({"c3"} \X {F_PSYNC})

DeliverInput == \E in \in Inputs : Deliver(in[1], in[2], MaxDeliveries)

Next == DeliverInput \/ RunMicrotask

Spec == Init /\ [][Next]_vars

(***************************************************************************)
(* SpecKV: two clients set and get strings; the keys and values include    *)
(* the empty string and a character outside ASCII.                         *)
(***************************************************************************)
\* how many data events a behaviour of SpecKV holds
MaxKV == 3

\* "\u00e9": one UTF-16 unit, two bytes on the wire
ValAccent == <<233>>

KVKeys == {KeyK, <<>>}

KVValues == {ValV, ValAccent, <<>>}

KVCommands ==
  {<<S_SET, k, v>> : k \in KVKeys, v \in KVValues} \cup {<<S_GET, k>> : k \in KVKeys}

\* a data event holding the one frame a client encodes for `args`
SendCommand(c, args, bound) ==
  /\ mq = <<>>
  /\ deliveries < bound
  /\ Install(execCommand(
         [World EXCEPT !.deliveries = @ + 1,
                       !.log.sent = Append(@, [conn |-> c, n |-> arrived[c] + 1,
                                               args |-> args])],
         ClientFrame(args), c, FALSE))

SendKV == \E c \in {"c1", "c2"}, args \in KVCommands : SendCommand(c, args, MaxKV)

NextKV == SendKV \/ RunMicrotask

SpecKV == Init /\ [][NextKV]_vars

(***************************************************************************)
(* SpecStream: a client appends to one stream with every form of id while  *)
(* the clock advances.                                                     *)
(***************************************************************************)
\* how many data events a behaviour of SpecStream holds
MaxStream == 4

\* "s"
KeyS == <<115>>

\* "f"
FieldF == <<102>>

\* the ids a client asks for: "*", "1-*", "2-*", "1-1", "2-1", "3-0"
StreamIds == {S_STAR, <<49, 45, 42>>, <<50, 45, 42>>, <<49, 45, 49>>,
              <<50, 45, 49>>, <<51, 45, 48>>}

SendXadd == \E id \in StreamIds :
              SendCommand("c1", <<S_XADD, KeyS, id, FieldF, ValV>>, MaxStream)

NextStream == SendXadd \/ RunMicrotask \/ Tick

SpecStream == Init /\ [][NextStream]_vars

(***************************************************************************)
(* SpecWait: a master with clients c1 and c2 and the replica c3.  The      *)
(* clients write, WAIT, block in XREAD and append to the stream; c2 and c3 *)
(* send REPLCONF ACK; timers fire when they are due.                       *)
(***************************************************************************)
\* how many data events a behaviour of SpecWait holds
MaxWait == 4

\* "0"
S_ZERO == <<48>>

\* "1"
S_ONE == <<49>>

\* "2"
S_TWO == <<50>>

A_WAIT_1 == <<S_WAIT, S_ONE, S_ONE>>

A_WAIT_2 == <<S_WAIT, S_TWO, S_ONE>>

A_ACK == <<S_REPLCONF, S_ACK, S_ZERO>>

A_XREAD_BLOCK == <<S_XREAD, S_block, S_ONE, S_streams, KeyS, S_ZeroZero>>

A_XADD == <<S_XADD, KeyS, S_STAR, FieldF, ValV>>

WaitInputs ==
  ({"c1"} \X {<<S_SET, KeyK, ValV>>, A_WAIT_1, <<S_PING>>, A_XREAD_BLOCK})
  \cup ({"c2"} \X {A_WAIT_2, A_ACK, A_XREAD_BLOCK, A_XADD})
  \cup ({"c3"} \X {<<S_PSYNC, S_QMARK, S_MINUS1>>, A_ACK})

SendWait == \E in \in WaitInputs : SendCommand(in[1], in[2], MaxWait)

NextWait == SendWait \/ RunMicrotask \/ FireTimer \/ Tick

SpecWait == Init /\ [][NextWait]_vars

(***************************************************************************)
(* SpecTx: a master and two clients that open transactions, queue writes   *)
(* and run them, one frame to a data event.                                *)
(***************************************************************************)
\* how many data events a behaviour of SpecTx holds
MaxTx == 5

TxInputs ==
  ({"c1"} \X {<<S_MULTI>>, <<S_SET, KeyK, ValV>>, <<S_EXEC>>})
  \cup ({"c2"} \X {<<S_MULTI>>, <<S_SET, KeyK, ValW>>, <<S_EXEC>>})

SendTx == \E in \in TxInputs : SendCommand(in[1], in[2], MaxTx)

NextTx == SendTx \/ RunMicrotask

SpecTx == Init /\ [][NextTx]_vars

(***************************************************************************)
(* SpecBlock: a master, a reader c1 and a writer c2 of the stream "s".     *)
(* The reader asks for the entries after 1-1, after "$", and blocks for    *)
(* the entries after 2-0; the writer appends 1-1 and 3-0; the clock runs   *)
(* and timers fire.                                                        *)
(***************************************************************************)
\* how many data events a behaviour of SpecBlock holds
MaxBlock == 4

\* "1-1", "2-0", "3-0"
Id_1_1 == <<49, 45, 49>>

Id_2_0 == <<50, 45, 48>>

Id_3_0 == <<51, 45, 48>>

BlockInputs ==
  ({"c1"} \X {<<S_XREAD, S_block, S_ONE, S_streams, KeyS, Id_2_0>>,
              <<S_XREAD, S_streams, KeyS, Id_1_1>>,
              <<S_XREAD, S_streams, KeyS, S_DOLLAR>>})
  \cup ({"c2"} \X {<<S_XADD, KeyS, Id_1_1, FieldF, ValV>>,
                   <<S_XADD, KeyS, Id_3_0, FieldF, ValV>>})

SendBlock == \E in \in BlockInputs : SendCommand(in[1], in[2], MaxBlock)

NextBlock == SendBlock \/ RunMicrotask \/ FireTimer \/ Tick

SpecBlock == Init /\ [][NextBlock]_vars

(***************************************************************************)
(* SpecRange: a master and a client that appends 1-1, 1-5, 2-0 and 2-5 to  *)
(* the stream "s" and asks for ranges of it.                               *)
(***************************************************************************)
\* how many data events a behaviour of SpecRange holds
MaxRange == 4

\* "1-5", "2-5", "1-0", "1-2", "2-1"
Id_1_5 == <<49, 45, 53>>

Id_2_5 == <<50, 45, 53>>

Id_1_0 == <<49, 45, 48>>

Id_1_2 == <<49, 45, 50>>

Id_2_1 == <<50, 45, 49>>

\* the (start, end) pairs asked for: 1-0..2-0, 1-2..2-1, 1..2, 1-0..1-2
Ranges == {<<Id_1_0, Id_2_0>>, <<Id_1_2, Id_2_1>>, <<S_ONE, S_TWO>>, <<Id_1_0, Id_1_2>>}

RangeInputs ==
  {<<S_XADD, KeyS, id, FieldF, ValV>> : id \in {Id_1_1, Id_1_5, Id_2_0, Id_2_5}}
  \cup {<<S_XRANGE, KeyS, r[1], r[2]>> : r \in Ranges}

SendRange == \E args \in RangeInputs : SendCommand("c1", args, MaxRange)

NextRange == SendRange \/ RunMicrotask

SpecRange == Init /\ [][NextRange]_vars

(***************************************************************************)
(* SpecExpire: a client stores a string that expires after one millisecond *)
(* and reads it with every reader while the clock advances.  The time of   *)
(* each data event is recorded with the command.                           *)
(***************************************************************************)
\* how many data events a behaviour of SpecExpire holds
MaxExpire == 3

\* "5"
S_FIVE == <<53>>

ExpireInputs ==
  { <<S_SET, KeyK, S_FIVE, S_PX, S_ONE>>,
    <<S_GET, KeyK>>,
    <<S_TYPE, KeyK>>,
    <<S_KEYS, S_STAR>>,
    <<S_INCR, KeyK>> }

SendExpire ==
  \E args \in ExpireInputs :
    /\ mq = <<>>
    /\ deliveries < MaxExpire
    /\ Install(execCommand(
           [World EXCEPT !.deliveries = @ + 1,
                         !.log.sent = Append(@, [conn |-> "c1", n |-> arrived["c1"] + 1,
                                                 args |-> args, at |-> now])],
           ClientFrame(args), "c1", FALSE))

NextExpire == SendExpire \/ RunMicrotask \/ Tick

SpecExpire == Init /\ [][NextExpire]_vars

(***************************************************************************)
(* SpecSplit: the bytes of one frame reach the server in two data events,  *)
(* cut at any position inside the frame.                                   *)
(***************************************************************************)
\* how many data events a behaviour of SpecSplit holds
MaxSplit == 4

SplitInputs == { <<S_SET, KeyK, S_FIVE>>, <<S_PING>> }

\* the first part of a frame is on its way and the second is not
HalfSent ==
  /\ log.sent # <<>>
  /\ log.sent[Len(log.sent)].part = 1

\* socket.on("data") with the first cut bytes of the frame of args
SendFirstPart ==
  \E c \in {"c1", "c2"}, args \in SplitInputs :
    \E cut \in 1..(Len(ClientFrame(args)) - 1) :
      /\ mq = <<>>
      /\ deliveries + 1 < MaxSplit
      /\ ~HalfSent
      /\ Install(execCommand(
             [World EXCEPT !.deliveries = @ + 1,
                           !.log.sent = Append(@, [conn |-> c, n |-> arrived[c] + 1,
                                                   args |-> args, cut |-> cut,
                                                   part |-> 1,
                                                   written |-> Len(out[c]),
                                                   stored |-> Len(log.applied)])],
             SubSeq(ClientFrame(args), 1, cut), c, FALSE))

\* socket.on("data") with the rest of the frame
SendSecondPart ==
  /\ mq = <<>>
  /\ HalfSent
  /\ \E h \in {log.sent[Len(log.sent)]} :
       Install(execCommand(
           [World EXCEPT !.deliveries = @ + 1,
                         !.log.sent = Append(@, [conn |-> h.conn,
                                                 n |-> arrived[h.conn] + 1,
                                                 args |-> h.args, cut |-> h.cut,
                                                 part |-> 2,
                                                 written |-> Len(out[h.conn]),
                                                 stored |-> Len(log.applied)])],
           SubSeq(ClientFrame(h.args), h.cut + 1, Len(ClientFrame(h.args))),
           h.conn, FALSE))

NextSplit == SendFirstPart \/ SendSecondPart \/ RunMicrotask

SpecSplit == Init /\ [][NextSplit]_vars

(***************************************************************************)
(* SpecParse: a client writes up to MaxFrames command frames back to back  *)
(* and they reach the server as one data event.                            *)
(***************************************************************************)
\* how many data events a behaviour of SpecParse holds
MaxParse == 1

\* how many frames one data event holds at most
MaxFrames == 3

\* "ping"
S_ping == <<112, 105, 110, 103>>

\* the payloads: lower-case name, two-byte UTF-8 character, a byte that is
\* no UTF-8, the empty payload
ParseInputs ==
  { <<S_ping>>, <<S_ECHO, <<195, 169>>>>, <<S_ECHO, <<255>>>>, <<S_ECHO, <<>>>> }

\* the frame a client writes for a command whose arguments are byte strings
RawFrame(args) ==
  <<42>> \o NumToString(Len(args)) \o CRLF
  \o Concat([a \in 1..Len(args) |->
               <<36>> \o NumToString(Len(args[a])) \o CRLF \o args[a] \o CRLF])

\* the frames of a batch, concatenated
BatchBytes(batch) == Concat([k \in 1..Len(batch) |-> RawFrame(batch[k])])

SendBatch ==
  \E c \in {"c1", "c2"}, n \in 1..MaxFrames :
    \E batch \in [1..n -> ParseInputs] :
      /\ mq = <<>>
      /\ deliveries < MaxParse
      /\ Install(execCommand(
             [World EXCEPT !.deliveries = @ + 1,
                           !.log.sent = Append(@, [conn |-> c, n |-> arrived[c] + 1,
                                                   args |-> batch[1],
                                                   batch |-> batch])],
             BatchBytes(batch), c, FALSE))

NextParse == SendBatch \/ RunMicrotask

SpecParse == Init /\ [][NextParse]_vars

(***************************************************************************)
(* SpecMalformed: a client writes buffers that hold a malformed frame,     *)
(* alone or behind a well-formed frame, between well-formed commands.      *)
(***************************************************************************)
\* how many data events a behaviour of SpecMalformed holds
MaxMalformed == 2

\* "*1\r\n$4\r\nPING"
B_PingHead == <<42, 49, 13, 10, 36, 52, 13, 10>> \o S_PING

\* frames that are no well-formed command frame: a simple string outside
\* an array, an integer element, a bulk string closed by XX instead of
\* \r\n, a bulk length that runs past the buffer, a \r without its \n
MalformedFrames ==
  { <<43>> \o S_PING \o CRLF,
    <<42, 49, 13, 10, 58, 53, 13, 10>>,
    B_PingHead \o <<88, 88>>,
    <<42, 50, 13, 10, 36, 52, 13, 10>> \o S_ECHO \o CRLF \o <<36, 53, 13, 10, 104, 105, 13, 10>>,
    B_PingHead \o <<13>> }

WellFormedFrames == {F_SET_k_v, F_MULTI}

MalformedBuffers ==
  MalformedFrames \cup {g \o b : g \in WellFormedFrames, b \in MalformedFrames}

\* what the claims about errors look at
Observed(W) ==
  [db |-> W.db, offset |-> W.serverState.master_repl_offset,
   replicas |-> W.serverState.replicas_connections, tx |-> W.transactionState,
   block |-> W.blockState, tasks |-> W.tasks]

\* how many writes each connection has been given
Written(W) == [c \in Conns |-> Len(W.out[c])]

SendMalformed ==
  \E data \in MalformedBuffers \cup WellFormedFrames :
    /\ mq = <<>>
    /\ deliveries < MaxMalformed
    /\ Install(execCommand(
           [World EXCEPT !.deliveries = @ + 1,
                         !.log.sent = Append(@, [conn |-> "c1", n |-> arrived["c1"] + 1,
                                                 data |-> data,
                                                 bad |-> data \in MalformedBuffers,
                                                 written |-> Len(out["c1"]),
                                                 before |-> Observed(World)])],
           data, "c1", FALSE))

NextMalformed == SendMalformed \/ RunMicrotask

SpecMalformed == Init /\ [][NextMalformed]_vars

(***************************************************************************)
(* SpecReject: c1 blocks on the stream s without a timeout and c2 appends  *)
(* with ids below, at and above the last id.                               *)
(***************************************************************************)
\* how many data events a behaviour of SpecReject holds
MaxReject == 4

\* "0-1"
Id_0_1 == <<48, 45, 49>>

\* "1-*"
Id_1_STAR == <<49, 45, 42>>

\* the ids c2 asks for
RejectIds == {S_ZeroZero, Id_0_1, Id_1_0, Id_1_1, Id_2_0, Id_1_STAR, S_STAR}

\* XREAD block 0 streams s $
A_XREAD_FOREVER == <<S_XREAD, S_block, S_ZERO, S_streams, KeyS, S_DOLLAR>>

RejectInputs ==
  [c1 |-> {A_XREAD_FOREVER},
   c2 |-> {<<S_XADD, KeyS, id, FieldF, ValV>> : id \in RejectIds}]

SendReject ==
  \E c \in {"c1", "c2"} :
    \E args \in RejectInputs[c] :
      /\ mq = <<>>
      /\ deliveries < MaxReject
      /\ Install(execCommand(
             [World EXCEPT !.deliveries = @ + 1,
                           !.log.sent = Append(@, [conn |-> c, n |-> arrived[c] + 1,
                                                   args |-> args,
                                                   written |-> Len(out[c]),
                                                   outs |-> Written(World),
                                                   before |-> Observed(World)])],
             ClientFrame(args), c, FALSE))

NextReject == SendReject \/ RunMicrotask

SpecReject == Init /\ [][NextReject]_vars

(***************************************************************************)
(* SpecAck: a master whose replicas c2 and c3 attach with PSYNC and answer *)
(* every REPLCONF GETACK they are sent with one REPLCONF ACK, at once or   *)
(* late; the client c1 writes and WAITs.                                   *)
(***************************************************************************)
\* how many data events a behaviour of SpecAck holds
MaxAck == 5

\* the GETACK frames written to connection c
GetAcksTo(c) == {j \in 1..Len(out[c]) : out[c][j].tag.k = "getack"}

\* the data events of log.sent in which connection c sent the command name
SentBy(c, name) ==
  {i \in 1..Len(log.sent) : log.sent[i].conn = c /\ log.sent[i].args[1] = name}

SendLogged(c, args, bound) ==
  /\ mq = <<>>
  /\ deliveries < bound
  /\ Install(execCommand(
         [World EXCEPT !.deliveries = @ + 1,
                       !.log.sent = Append(@, [conn |-> c, n |-> arrived[c] + 1,
                                               args |-> args,
                                               written |-> Len(out[c]),
                                               outs |-> Written(World),
                                               before |-> Observed(World)])],
         ClientFrame(args), c, FALSE))

ClientSends ==
  \E args \in {<<S_SET, KeyK, ValV>>, A_WAIT_1, A_WAIT_2} : SendLogged("c1", args, MaxAck)

ReplicaAttaches ==
  \E c \in {"c2", "c3"} :
    /\ SentBy(c, S_PSYNC) = {}
    /\ SendLogged(c, <<S_PSYNC, S_QMARK, S_MINUS1>>, MaxAck)

ReplicaAcks ==
  \E c \in {"c2", "c3"} :
    /\ Cardinality(SentBy(c, S_REPLCONF)) < Cardinality(GetAcksTo(c))
    /\ SendLogged(c, A_ACK, MaxAck)

NextAck == ClientSends \/ ReplicaAttaches \/ ReplicaAcks \/ RunMicrotask \/ FireTimer \/ Tick

SpecAck == Init /\ [][NextAck]_vars

(***************************************************************************)
(* SpecClose: a master whose replicas c2 and c3 attach with PSYNC and then *)
(* close their connection; the client c1 writes and WAITs.  The server     *)
(* registers no handler for "close" or "error": the event changes nothing  *)
(* in the program and is only recorded.                                    *)
(***************************************************************************)
\* how many data and close events a behaviour of SpecClose holds
MaxClose == 4

\* what log.sent holds for the close of a connection
CloseEvent == <<<<99, 108, 111, 115, 101>>>>

\* the events of log.sent in which connection c closed
ClosedAt(c) ==
  {i \in 1..Len(log.sent) : log.sent[i].conn = c /\ log.sent[i].args = CloseEvent}

CloseClientSends ==
  \E args \in {<<S_SET, KeyK, ValV>>, A_WAIT_1} : SendLogged("c1", args, MaxClose)

CloseReplicaAttaches ==
  \E c \in {"c2", "c3"} :
    /\ SentBy(c, S_PSYNC) = {}
    /\ ClosedAt(c) = {}
    /\ SendLogged(c, <<S_PSYNC, S_QMARK, S_MINUS1>>, MaxClose)

\* the socket of replica c emits "close"
ReplicaCloses ==
  \E c \in {"c2", "c3"} :
    /\ mq = <<>>
    /\ deliveries < MaxClose
    /\ SentBy(c, S_PSYNC) # {}
    /\ ClosedAt(c) = {}
    /\ Install([World EXCEPT !.deliveries = @ + 1,
                             !.log.sent = Append(@, [conn |-> c, n |-> arrived[c],
                                                     args |-> CloseEvent,
                                                     written |-> Len(out[c]),
                                                     outs |-> Written(World),
                                                     before |-> Observed(World)])])

NextClose ==
  CloseClientSends \/ CloseReplicaAttaches \/ ReplicaCloses \/ RunMicrotask
  \/ FireTimer \/ Tick

SpecClose == Init /\ [][NextClose]_vars

(***************************************************************************)
(* SpecTimeout: c1 blocks on the stream s for one millisecond, c2 blocks   *)
(* on it without a timeout or appends to it, while the clock advances and  *)
(* timers fire.  The time of each data event is recorded.                  *)
(***************************************************************************)
\* how many data events a behaviour of SpecTimeout holds
MaxTimeout == 4

TimeoutInputs ==
  [c1 |-> {A_XREAD_BLOCK},
   c2 |-> {<<S_XREAD, S_block, S_ZERO, S_streams, KeyS, S_ZeroZero>>, A_XADD}]

SendTimed ==
  \E c \in {"c1", "c2"} :
    \E args \in TimeoutInputs[c] :
      /\ mq = <<>>
      /\ deliveries < MaxTimeout
      /\ Install(execCommand(
             [World EXCEPT !.deliveries = @ + 1,
                           !.log.sent = Append(@, [conn |-> c, n |-> arrived[c] + 1,
                                                   args |-> args, at |-> now,
                                                   written |-> Len(out[c]),
                                                   outs |-> Written(World),
                                                   before |-> Observed(World)])],
             ClientFrame(args), c, FALSE))

NextTimeout == SendTimed \/ RunMicrotask \/ FireTimer \/ Tick

SpecTimeout == Init /\ [][NextTimeout]_vars

(***************************************************************************)
(* The same SET sent twice: a master with no replica, one client that      *)
(* writes and asks GET, TYPE, KEYS and INFO.                               *)
(***************************************************************************)
MaxIdem == 4

A_INFO == <<S_INFO, S_replication>>

IdemCommands ==
  {<<S_SET, KeyK, ValV>>, <<S_SET, KeyK, ValW>>, <<S_GET, KeyK>>, <<S_TYPE, KeyK>>,
   <<S_KEYS, S_STAR>>, A_INFO}

\* the handlers below read the state only
NoCtx == [task |-> 0, conn |-> "c1", n |-> 0]

\* what GET k, TYPE k, KEYS * and INFO replication answer in state W
Report(W) ==
  [get |-> cmdGET(W, <<KeyK>>, NoCtx).response.bytes,
   type |-> cmdTYPE(W, <<KeyK>>, NoCtx).response.bytes,
   keys |-> cmdKEYS(W, <<S_STAR>>, NoCtx).response.bytes,
   info |-> cmdINFO(W, <<S_replication>>, NoCtx).response.bytes]

SendIdem ==
  \E args \in IdemCommands :
    /\ mq = <<>>
    /\ deliveries < MaxIdem
    /\ Install(execCommand(
           [World EXCEPT !.deliveries = @ + 1,
                         !.log.sent = Append(@, [conn |-> "c1", n |-> arrived["c1"] + 1,
                                                 args |-> args,
                                                 before |-> Report(World)])],
           ClientFrame(args), "c1", FALSE))

NextIdem == SendIdem \/ RunMicrotask

SpecIdem == Init /\ [][NextIdem]_vars

(***************************************************************************)
(* SET with a PX option that lacks its milliseconds or carries a word in   *)
(* their place, alone in a data event or followed by PING or GET.          *)
(***************************************************************************)
MaxPx == 3

\* "abc"
S_abc == <<97, 98, 99>>

A_SET_PX == <<S_SET, KeyK, ValV, S_PX>>

A_SET_PX_abc == <<S_SET, KeyK, ValV, S_PX, S_abc>>

BadPx == {A_SET_PX, A_SET_PX_abc}

PxFollowers == {<<S_PING>>, <<S_GET, KeyK>>}

PxBatches ==
  {<<a>> : a \in BadPx \cup PxFollowers
                 \cup {<<S_SET, KeyK, ValW>>, <<S_SET, KeyK, ValW, S_PX, S_TWO>>}}
  \cup {<<a, b>> : a \in BadPx, b \in PxFollowers}

\* a data event of c1 holding the frames of a batch of commands
SendPx ==
  \E batch \in PxBatches :
    /\ mq = <<>>
    /\ deliveries < MaxPx
    /\ Install(execCommand(
           [World EXCEPT !.deliveries = @ + 1,
                         !.log.sent = Append(@, [conn |-> "c1", n |-> arrived["c1"] + 1,
                                                 args |-> batch[1], batch |-> batch,
                                                 before |-> db])],
           Concat([j \in 1..Len(batch) |-> ClientFrame(batch[j])]), "c1", FALSE))

NextPx == SendPx \/ RunMicrotask

SpecPx == Init /\ [][NextPx]_vars

(***************************************************************************)
(* An XADD that wakes a blocking XREAD while a WAIT may be pending: c1     *)
(* writes, waits and appends, c2 blocks on the stream, c3 is a replica.    *)
(***************************************************************************)
MaxWake == 4

WakeInputs ==
  [c1 |-> {<<S_SET, KeyK, ValV>>, A_WAIT_2, A_XADD},
   c2 |-> {A_XREAD_FOREVER, A_XREAD_BLOCK},
   c3 |-> {<<S_PSYNC, S_QMARK, S_MINUS1>>, A_ACK}]

\* the two registrations and the suspended invocations of execCommand
WakeView(W) == [wait |-> W.waitState, block |-> W.blockState, tasks |-> W.tasks]

\* a data event; the history keeps the registrations as they were when it
\* arrived and as the synchronous part of execCommand left them
SendWake ==
  \E c \in {"c1", "c2", "c3"} :
    \E args \in WakeInputs[c] :
      /\ mq = <<>>
      /\ deliveries < MaxWake
      /\ \E W1 \in {execCommand([World EXCEPT !.deliveries = @ + 1],
                                ClientFrame(args), c, FALSE)} :
           Install([W1 EXCEPT !.log.sent =
                      Append(@, [conn |-> c, n |-> arrived[c] + 1, args |-> args,
                                 before |-> WakeView(World),
                                 after |-> WakeView(W1)])])

NextWake == SendWake \/ RunMicrotask \/ FireTimer \/ Tick

SpecWake == Init /\ [][NextWake]_vars

(***************************************************************************)
(* RDBReader.  The reader is a cursor (offset) over the bytes of the file; *)
(* every method returns its value and the cursor behind it, or throws: a   *)
(* DataView read outside the buffer is a RangeError.                       *)
(***************************************************************************)
RdbOk(v, off) == [err |-> FALSE, v |-> v, off |-> off]

RdbThrow == [err |-> TRUE, v |-> <<>>, off |-> 0]

\* readByte(): view.getUint8(offset), offset++
readByte(buf, off) == IF off < Len(buf) THEN RdbOk(buf[off + 1], off + 1) ELSE RdbThrow

\* view.getUint32(offset, true)
getUint32LE(buf, off) ==
  IF off + 4 > Len(buf) THEN RdbThrow
  ELSE RdbOk(((buf[off + 4] * 256 + buf[off + 3]) * 256 + buf[off + 2]) * 256 + buf[off + 1], off)

\* view.getUint32(offset)
getUint32BE(buf, off) ==
  IF off + 4 > Len(buf) THEN RdbThrow
  ELSE RdbOk(((buf[off + 1] * 256 + buf[off + 2]) * 256 + buf[off + 3]) * 256 + buf[off + 4], off)

\* view.getUint16(offset, true)
getUint16LE(buf, off) ==
  IF off + 2 > Len(buf) THEN RdbThrow ELSE RdbOk(buf[off + 2] * 256 + buf[off + 1], off)

RECURSIVE LittleEndian(_)
LittleEndian(bytes) ==
  IF bytes = <<>> THEN 0
  ELSE IF \A i \in 1..Len(bytes) : bytes[i] = 0 THEN 0
  ELSE Head(bytes) + 256 * LittleEndian(Tail(bytes))

\* view.getBigUint64(offset, true)
getBigUint64LE(buf, off) ==
  IF off + 8 > Len(buf) THEN RdbThrow
  ELSE RdbOk(LittleEndian(SubSeq(buf, off + 1, off + 8)), off)

\* new TextDecoder().decode(bytes): UTF-8, a leading byte order mark dropped
textDecode(bytes) ==
  IF Len(bytes) >= 3 /\ SubSeq(bytes, 1, 3) = <<239, 187, 191>>
  THEN Utf8Decode(SubSeq(bytes, 4, Len(bytes)))
  ELSE Utf8Decode(bytes)

\* readString(length): buffer.slice clamps, the cursor moves by length
readString(buf, off, length) ==
  RdbOk(textDecode(subarray(buf, off, off + length)), off + length)

decodeSize(buf, off) ==
  With(readByte(buf, off), LAMBDA first :
    IF first.err THEN RdbThrow
    ELSE IF first.v \div 64 = 0 THEN RdbOk(first.v % 64, first.off)
    ELSE IF first.v \div 64 = 1
    THEN With(readByte(buf, first.off), LAMBDA second :
           IF second.err THEN RdbThrow
           ELSE RdbOk((first.v % 64) * 256 + second.v, second.off))
    ELSE IF first.v \div 64 = 2
    THEN With(getUint32BE(buf, first.off), LAMBDA number :
           IF number.err THEN RdbThrow ELSE RdbOk(number.v, first.off + 4))
    ELSE RdbOk(first.v % 64, first.off))

\* the tail of decodeString: a size, then that many bytes
decodeSizedString(buf, off) ==
  With(decodeSize(buf, off), LAMBDA size :
    IF size.err THEN RdbThrow ELSE readString(buf, size.off, size.v))

decodeString(buf, off) ==
  IF off >= Len(buf) THEN RdbThrow
  ELSE IF buf[off + 1] \div 64 = 3
  THEN With(decodeSize(buf, off), LAMBDA stringFormat :
         IF stringFormat.v = 0
         THEN With(readByte(buf, stringFormat.off), LAMBDA b :
                IF b.err THEN RdbThrow ELSE RdbOk(NumToString(b.v), b.off))
         ELSE IF stringFormat.v = 1
         THEN With(getUint16LE(buf, stringFormat.off), LAMBDA n :
                IF n.err THEN RdbThrow ELSE RdbOk(NumToString(n.v), stringFormat.off + 2))
         ELSE IF stringFormat.v = 2
         THEN With(getUint32LE(buf, stringFormat.off), LAMBDA n :
                IF n.err THEN RdbThrow ELSE RdbOk(NumToString(n.v), stringFormat.off + 4))
         ELSE IF stringFormat.v = 3 THEN RdbThrow
         ELSE decodeSizedString(buf, stringFormat.off))
  ELSE decodeSizedString(buf, off)

decodeKeyValuePair(buf, off) ==
  With(readByte(buf, off), LAMBDA dataType :
    IF dataType.err THEN RdbThrow
    ELSE With(decodeString(buf, dataType.off), LAMBDA key :
      IF key.err THEN RdbThrow
      ELSE IF dataType.v # 0 THEN RdbThrow
      ELSE With(decodeString(buf, key.off), LAMBDA value :
        IF value.err THEN RdbThrow
        ELSE RdbOk([key |-> key.v, value |-> value.v], value.off))))

\* values[key] = {...} on a plain object: an existing property keeps its place
objectSet(values, entry) == dbSet(values, entry)

\* the for loop of decodeDB from iteration i on
RECURSIVE decodeEntries(_, _, _, _, _)
decodeEntries(buf, off, i, tableSize, values) ==
  IF i >= tableSize THEN RdbOk(values, off)
  ELSE IF off >= Len(buf) THEN RdbThrow
  ELSE IF buf[off + 1] = 252
  THEN With(getBigUint64LE(buf, off + 1), LAMBDA timeStamp :
         IF timeStamp.err THEN RdbThrow
         ELSE With(decodeKeyValuePair(buf, off + 9), LAMBDA kv :
           IF kv.err THEN RdbThrow
           ELSE decodeEntries(buf, kv.off, i + 1, tableSize,
                  objectSet(values, StringValue(kv.v.key, kv.v.value,
                                                ExpireAt(timeStamp.v))))))
  ELSE IF buf[off + 1] = 253
  THEN With(getUint32LE(buf, off + 1), LAMBDA timeStamp :
         IF timeStamp.err THEN RdbThrow
         ELSE With(decodeKeyValuePair(buf, off + 1), LAMBDA kv :
           IF kv.err THEN RdbThrow
           ELSE decodeEntries(buf, kv.off, i + 1, tableSize,
                  objectSet(values, StringValue(kv.v.key, kv.v.value,
                                                ExpireAt(timeStamp.v * 1000))))))
  ELSE With(decodeKeyValuePair(buf, off), LAMBDA kv :
         IF kv.err THEN RdbThrow
         ELSE decodeEntries(buf, kv.off, i + 1, tableSize,
                objectSet(values, StringValue(kv.v.key, kv.v.value, NoExpire))))

decodeDB(buf, off) ==
  IF off >= Len(buf) THEN RdbThrow
  ELSE IF buf[off + 1] # 254 THEN RdbThrow
  ELSE With(decodeSize(buf, off + 1), LAMBDA index :
    IF index.err THEN RdbThrow
    ELSE With(readByte(buf, index.off), LAMBDA tableSizeOpCode :
      IF tableSizeOpCode.err THEN RdbThrow
      ELSE With(decodeSize(buf, tableSizeOpCode.off), LAMBDA tableSize :
        IF tableSize.err THEN RdbThrow
        ELSE With(decodeSize(buf, tableSize.off), LAMBDA expiryTableSize :
          IF expiryTableSize.err THEN RdbThrow
          ELSE decodeEntries(buf, expiryTableSize.off, 0, tableSize.v, <<>>)))))

\* the while loop of decodeMetadata; only the cursor is used afterwards
RECURSIVE decodeMetadata(_, _)
decodeMetadata(buf, off) ==
  IF off >= Len(buf) THEN RdbThrow
  ELSE IF buf[off + 1] # 250 THEN RdbOk(<<>>, off)
  ELSE With(decodeString(buf, off + 1), LAMBDA name :
    IF name.err THEN RdbThrow
    ELSE With(decodeString(buf, name.off), LAMBDA value :
      IF value.err THEN RdbThrow ELSE decodeMetadata(buf, value.off)))

\* readFile(): header, metadata, database, then the EOF opcode
readFile(buf) ==
  With(decodeMetadata(buf, 9), LAMBDA metadata :
    IF metadata.err THEN RdbThrow
    ELSE With(decodeDB(buf, metadata.off), LAMBDA d :
      IF d.err THEN RdbThrow
      ELSE With(readByte(buf, d.off), LAMBDA opCode :
        IF opCode.err \/ opCode.v # 255 THEN RdbThrow ELSE RdbOk(d.v, opCode.off))))

\* a property name that is an array index: Object.entries lists these first
IsArrayIndex(key) ==
  /\ key # <<>>
  /\ AllDigits(key)
  /\ Len(key) <= 9
  /\ (key[1] # 48 \/ Len(key) = 1)

RECURSIVE SortIndexKeys(_)
SortIndexKeys(entries) ==
  IF entries = <<>> THEN <<>>
  ELSE LET m == CHOOSE i \in 1..Len(entries) :
                  \A j \in 1..Len(entries) :
                    DigitsValue(entries[i].key) <= DigitsValue(entries[j].key)
       IN <<entries[m]>> \o SortIndexKeys(RemoveAt(entries, m))

\* Object.entries(values): array indexes ascending, then insertion order
objectEntries(values) ==
  SortIndexKeys(SelectSeq(values, LAMBDA e : IsArrayIndex(e.key)))
  \o SelectSeq(values, LAMBDA e : ~IsArrayIndex(e.key))

(***************************************************************************)
(* SpecRdb: a master started with --dbfilename.  main() reads the file,    *)
(* replaces db by what the reader returns and only then opens the server;  *)
(* a reader that throws rejects main() and the server never listens.       *)
(***************************************************************************)
\* entries in a file
MaxRdbEntries == 2

\* data events of the client after the load
MaxRdb == 2

KeyA == <<97>>

KeyB == <<98>>

\* "REDIS0011"
RdbMagic == <<82, 69, 68, 73, 83, 48, 48, 49, 49>>

\* a length-prefixed string (lengths below 64)
RdbString(s) == <<Len(s)>> \o s

RECURSIVE LittleEndianBytes(_, _)
LittleEndianBytes(n, width) ==
  IF width = 0 THEN <<>> ELSE <<n % 256>> \o LittleEndianBytes(n \div 256, width - 1)

\* the entries a file is made of: no expiry, 0xFC with milliseconds, 0xFD
\* with seconds
RdbEntryPool ==
  {[op |-> 0, key |-> KeyA, value |-> ValV, time |-> 0],
   [op |-> 0, key |-> KeyB, value |-> ValW, time |-> 0],
   [op |-> 252, key |-> KeyA, value |-> ValW, time |-> 5],
   [op |-> 253, key |-> KeyA, value |-> ValV, time |-> 1],
   [op |-> 253, key |-> KeyB, value |-> ValW, time |-> 0],
   [op |-> 253, key |-> KeyB, value |-> ValV, time |-> 256]}

RdbEntryLists ==
  UNION {[1..n -> RdbEntryPool] : n \in 0..MaxRdbEntries}

EncodeEntry(e) ==
  (IF e.op = 252 THEN <<252>> \o LittleEndianBytes(e.time, 8)
   ELSE IF e.op = 253 THEN <<253>> \o LittleEndianBytes(e.time, 4)
   ELSE <<>>)
  \o <<0>> \o RdbString(e.key) \o RdbString(e.value)

\* header, one metadata pair, SELECTDB 0, RESIZEDB with the two sizes, the
\* entries, EOF and the eight bytes of the checksum
EncodeFile(entries, tableSize) ==
  RdbMagic \o <<250>> \o RdbString(<<118>>) \o RdbString(<<55>>)
  \o <<254, 0, 251, tableSize,
       Cardinality({i \in 1..Len(entries) : entries[i].op # 0})>>
  \o Concat([i \in 1..Len(entries) |-> EncodeEntry(entries[i])])
  \o <<255>> \o [i \in 1..8 |-> 0]

RdbFiles ==
  {[entries |-> es, tableSize |-> n] :
     es \in RdbEntryLists, n \in 0..(MaxRdbEntries + 1)}

InitRdb ==
  /\ db = <<>>
  /\ waitState = waitStateInit
  /\ noResponseQueue = <<>>
  /\ blockState = blockStateInit
  /\ transactionState = transactionStateInit
  /\ tasks = <<>>
  /\ mq = <<>>
  /\ timers = {}
  /\ nextId = 1
  /\ out = [c \in Conns |-> <<>>]
  /\ arrived = [c \in Conns |-> 0]
  /\ now = 1
  /\ deliveries = 0
  /\ serverState = [role |-> "master", master_repl_offset |-> 0,
                    replicas_connections |-> <<>>]
  /\ handshakeStep = "NONE"
  /\ \E f \in RdbFiles :
       /\ f.tableSize \in {Len(f.entries) - 1, Len(f.entries), Len(f.entries) + 1}
       /\ log = [logInit EXCEPT !.sent = <<[conn |-> "file", n |-> 0, args |-> <<>>,
                                             entries |-> f.entries,
                                             tableSize |-> f.tableSize]>>]

\* main(): const result = await readRDBFile(...); db = new Map(Object.entries(...))
LoadRdb ==
  /\ Len(log.sent) = 1
  /\ \E result \in {readFile(EncodeFile(log.sent[1].entries, log.sent[1].tableSize))} :
       Install([World EXCEPT
                  !.db = IF result.err THEN @ ELSE objectEntries(result.v),
                  !.log.sent = Append(@, [conn |-> "file", n |-> 0, args |-> <<>>,
                                          ok |-> ~result.err,
                                          loaded |-> IF result.err THEN <<>>
                                                     ELSE objectEntries(result.v)])])

\* the server listens only when the load did not throw
RdbClient ==
  /\ Len(log.sent) >= 2
  /\ log.sent[2].ok
  /\ \E args \in {<<S_GET, KeyA>>, <<S_GET, KeyB>>, <<S_KEYS, S_STAR>>} :
       SendCommand("c1", args, MaxRdb)

NextRdb == LoadRdb \/ RdbClient \/ RunMicrotask \/ Tick

SpecRdb == InitRdb /\ [][NextRdb]_vars

(***************************************************************************)
(* Two clients that WAIT at the same time: c1 writes and waits for one     *)
(* replica, c2 waits for three with a longer timeout, the replica c3       *)
(* attaches once and answers the GETACKs written to it.                    *)
(***************************************************************************)
MaxWaits == 6

\* "3"
S_THREE == <<51>>

A_WAIT_3 == <<S_WAIT, S_THREE, S_TWO>>

FirstClientSends ==
  \E args \in {<<S_SET, KeyK, ValV>>, A_WAIT_1} : SendLogged("c1", args, MaxWaits)

SecondClientWaits == SendLogged("c2", A_WAIT_3, MaxWaits)

OneReplicaAttaches ==
  /\ SentBy("c3", S_PSYNC) = {}
  /\ SendLogged("c3", <<S_PSYNC, S_QMARK, S_MINUS1>>, MaxWaits)

OneReplicaAcks ==
  /\ Cardinality(SentBy("c3", S_REPLCONF)) < Cardinality(GetAcksTo("c3"))
  /\ SendLogged("c3", A_ACK, MaxWaits)

NextWaits ==
  \/ FirstClientSends
  \/ SecondClientWaits
  \/ OneReplicaAttaches
  \/ OneReplicaAcks
  \/ RunMicrotask
  \/ FireTimer
  \/ Tick

SpecWaits == Init /\ [][NextWaits]_vars

(***************************************************************************)
(* SpecConverge: a master whose replica c3 attaches before the first       *)
(* write; the clients c1 and c2 write the key k with SET, directly or      *)
(* inside MULTI/EXEC.                                                      *)
(***************************************************************************)
MaxConverge == 5

ConvergeInputs ==
  [c1 |-> {<<S_MULTI>>, <<S_SET, KeyK, ValV>>, <<S_EXEC>>},
   c2 |-> {<<S_SET, KeyK, ValW>>}]

ReplicaFirst ==
  /\ log.sent = <<>>
  /\ SendCommand("c3", <<S_PSYNC, S_QMARK, S_MINUS1>>, MaxConverge)

WriterSends ==
  \E c \in {"c1", "c2"} :
    \E args \in ConvergeInputs[c] :
      /\ log.sent # <<>>
      /\ SendCommand(c, args, MaxConverge)

NextConverge == ReplicaFirst \/ WriterSends \/ RunMicrotask

SpecConverge == Init /\ [][NextConverge]_vars

(***************************************************************************)
(* The replica side: the handshake of main() and the data handler of the   *)
(* connection to the master.  handshakeStep is "NONE" on a master.         *)
(***************************************************************************)
\* Number(values.port) || 6379, for a server started without --port
port == 6379

\* "+PONG\r\n"
R_PONG == <<43, 80, 79, 78, 71, 13, 10>>

\* "+OK\r\n"
R_OK == <<43, 79, 75, 13, 10>>

\* the while loop of the FILE_TRANSFER branch: peek one more byte until the
\* text has `length` characters or i reaches data.length; yields i
RECURSIVE fileTransferLoop(_, _, _, _, _)
fileTransferLoop(data, cur, length, str, i) ==
  IF Len(str) # length /\ i < Len(data)
  THEN fileTransferLoop(data, cur, length, Utf8Decode(peekBytes(data, cur, i)), i + 1)
  ELSE i

\* while (!parser.isEnd()) of the handshake, with the parser at cur; a
\* handshakeStep that no branch handles spins forever ("HUNG")
RECURSIVE handshakeLoop(_, _, _)
handshakeLoop(W, data, cur) ==
  IF isEnd(data, cur) THEN W
  ELSE IF W.handshakeStep = "FULLRESYNC"
  THEN LET s == parseString(data, cur)
       IN IF s.err # NoError THEN W
          ELSE handshakeLoop([W EXCEPT !.handshakeStep = "FILE_TRANSFER"], data, s.cur)
  ELSE IF W.handshakeStep = "FILE_TRANSFER"
  THEN LET e == parseElement(data, cur)
           length == Number(Tail(e.value))
           i == fileTransferLoop(data, e.cur, length.v,
                                 Utf8Decode(peekBytes(data, e.cur, length.v)), length.v)
       IN IF e.err # NoError \/ length.nan THEN W
          ELSE CHOOSE r \in {handshakeLoop([W EXCEPT !.handshakeStep = "DONE"], data, next) :
                               next \in {e.cur + (i - 2)}} : TRUE
  ELSE IF W.handshakeStep = "DONE"
  THEN \* execCommand(parser.peekBytes(Infinity), masterConnection, true)
       CHOOSE r \in {execCommand(W, rest, "master", TRUE) :
                       rest \in {subarray(data, cur, Len(data))}} : TRUE
  ELSE [W EXCEPT !.handshakeStep = "HUNG"]

\* masterConnection.on("data", ...)
masterData(W, data) ==
  IF W.handshakeStep = "DONE" THEN execCommand(W, data, "master", TRUE)
  ELSE IF W.handshakeStep = "PING" /\ data = R_PONG
  THEN [write(W, "master",
              serialazeBulkStringArray(<<S_REPLCONF, S_listening_port, NumToString(port)>>),
              HandshakeTag)
          EXCEPT !.handshakeStep = "REPLCONF"]
  ELSE IF W.handshakeStep = "REPLCONF" /\ data = R_OK
  THEN [write(W, "master", serialazeBulkStringArray(<<S_REPLCONF, S_capa, S_psync2>>),
              HandshakeTag)
          EXCEPT !.handshakeStep = "PSYNC"]
  ELSE IF W.handshakeStep = "PSYNC" /\ data = R_OK
  THEN [write(W, "master", serialazeBulkStringArray(<<S_PSYNC, S_QMARK, S_MINUS1>>),
              HandshakeTag)
          EXCEPT !.handshakeStep = "FULLRESYNC"]
  ELSE handshakeLoop(W, data, 0)

(***************************************************************************)
(* SpecReplica: a server started with --replicaof.  Its master answers the *)
(* handshake and then streams command frames; the stream is cut into data  *)
(* events at frame boundaries, the RDB blob alone, behind +FULLRESYNC, or  *)
(* with command frames behind it.  A client c1 of the replica reads and    *)
(* WAITs.                                                                  *)
(***************************************************************************)
\* how many data events a behaviour of SpecReplica holds
MaxReplica == 7

\* the state after masterConnection's "ready" event
InitReplica ==
  /\ db = <<>>
  /\ waitState = waitStateInit
  /\ noResponseQueue = <<>>
  /\ blockState = blockStateInit
  /\ transactionState = transactionStateInit
  /\ tasks = <<>>
  /\ mq = <<>>
  /\ timers = {}
  /\ nextId = 1
  /\ out = [c \in Conns |->
              IF c = "master"
              THEN <<[data |-> serialazeArray(<<serialazeBulkString(S_PING)>>),
                      tag |-> HandshakeTag]>>
              ELSE <<>>]
  /\ arrived = [c \in Conns |-> 0]
  /\ now = 1
  /\ deliveries = 0
  /\ log = logInit
  /\ serverState = [role |-> "slave", master_repl_offset |-> 0,
                    replicas_connections |-> <<>>]
  /\ handshakeStep = "PING"

\* what the master writes after PSYNC: the reply and the blob of sendRDBFile
M_FULLRESYNC ==
  serialazeSimpleString(S_FULLRESYNC_ \o S_master_replid \o <<32, 48>>)

M_RDB == <<36>> \o NumToString(Len(emptyRDBFile)) \o CRLF \o emptyRDBFile

F_GETACK == ClientFrame(<<S_REPLCONF, S_GETACK, S_STAR>>)

\* the command frames a master streams, one or two to a data event
MasterFrames == {F_SET_k_v, F_GETACK, F_PING}

MasterCommands == MasterFrames \cup {a \o b : a, b \in MasterFrames}

\* the data events the master's stream can be cut into, at handshakeStep
\* step: the bytes and how many of them are command frames
MasterChunks(step) ==
  IF step = "PING" THEN {[data |-> R_PONG, commands |-> 0]}
  ELSE IF step \in {"REPLCONF", "PSYNC"} THEN {[data |-> R_OK, commands |-> 0]}
  ELSE IF step = "FULLRESYNC"
  THEN {[data |-> M_FULLRESYNC, commands |-> 0],
        [data |-> M_FULLRESYNC \o M_RDB, commands |-> 0]}
       \cup {[data |-> M_FULLRESYNC \o M_RDB \o f, commands |-> Len(f)] : f \in MasterCommands}
  ELSE IF step = "FILE_TRANSFER"
  THEN {[data |-> M_RDB, commands |-> 0]}
       \cup {[data |-> M_RDB \o f, commands |-> Len(f)] : f \in MasterCommands}
  ELSE IF step = "DONE"
  THEN {[data |-> f, commands |-> Len(f)] : f \in MasterCommands}
  ELSE {}

MasterData ==
  /\ mq = <<>>
  /\ deliveries < MaxReplica
  /\ \E ch \in MasterChunks(handshakeStep) :
       Install(masterData([World EXCEPT !.deliveries = @ + 1,
                                        !.log.fromMaster = @ + ch.commands],
                          ch.data))

A_WAIT_NOW == <<S_WAIT, S_ONE, S_ZERO>>

SendReplicaClient ==
  \E args \in {A_WAIT_NOW, <<S_GET, KeyK>>} : SendCommand("c1", args, MaxReplica)

NextReplica == MasterData \/ SendReplicaClient \/ RunMicrotask \/ FireTimer

SpecReplica == InitReplica /\ [][NextReplica]_vars

(***************************************************************************)
(* SpecStreaming: a replica whose master, after the handshake, streams     *)
(* command frames, one or two to a data event, or a frame cut in two data  *)
(* events.  The replica has no clients.                                    *)
(***************************************************************************)
\* how many data events a behaviour of SpecStreaming holds
MaxStreaming == 7

\* where the master's SET frame is cut in two
CutAt == 10

\* the frames of one data event from the master
StreamBatches ==
  { <<F_SET_k_v>>, <<F_GETACK>>, <<F_PING>>, <<F_SET_k_v, F_GETACK>>,
    <<F_GETACK, F_SET_k_v>>, <<F_GETACK, F_GETACK>> }

\* the data events of the stream: whole frames, or a part of a frame
StreamChunks ==
  {[data |-> Concat(b), frames |-> b] : b \in StreamBatches}
  \cup {[data |-> SubSeq(F_SET_k_v, 1, CutAt), frames |-> <<>>],
        [data |-> SubSeq(F_SET_k_v, CutAt + 1, Len(F_SET_k_v)), frames |-> <<>>]}

MasterStream ==
  /\ mq = <<>>
  /\ deliveries < MaxStreaming
  /\ \E ch \in IF handshakeStep = "DONE" THEN StreamChunks
               ELSE {[data |-> m.data, frames |-> <<>>] :
                       m \in {x \in MasterChunks(handshakeStep) : x.commands = 0}} :
       Install(masterData(
         [World EXCEPT !.deliveries = @ + 1,
                       !.log.fromMaster =
                           @ + (IF handshakeStep = "DONE" THEN Len(ch.data) ELSE 0),
                       !.log.sent = Append(@, [conn |-> "master", n |-> arrived["master"] + 1,
                                               args |-> <<>>,
                                               data |-> ch.data, frames |-> ch.frames,
                                               step |-> handshakeStep,
                                               received |-> log.fromMaster,
                                               written |-> Len(out["master"])])],
         ch.data))

NextStreaming == MasterStream \/ RunMicrotask

SpecStreaming == InitReplica /\ [][NextStreaming]_vars

(***************************************************************************)
(* SpecHandshake: a replica during its handshake.  The master answers each *)
(* step as expected or with another reply, and sends the FULLRESYNC line   *)
(* and the RDB blob in one data event or in several, the blob whole or cut *)
(* in two.  A client c1 of the replica writes and reads.                   *)
(***************************************************************************)
\* how many data events a behaviour of SpecHandshake holds
MaxHandshake == 7

\* how many bytes of the blob frame the first of its two parts holds
RdbCut == 40

RdbHead == SubSeq(M_RDB, 1, RdbCut)

RdbRest == SubSeq(M_RDB, RdbCut + 1, Len(M_RDB))

RECURSIVE SumBlob(_)
SumBlob(sent) == IF sent = <<>> THEN 0 ELSE Head(sent).blob + SumBlob(Tail(sent))

\* how many bytes of the blob frame the master has delivered
BlobDelivered == SumBlob(SelectSeq(log.sent, LAMBDA s : s.conn = "master"))

\* the data events the master can send next: good says that the bytes are
\* the reply the step expects, blob how many bytes of the blob frame they hold
HandshakeChunks ==
  IF BlobDelivered > 0 /\ BlobDelivered < Len(M_RDB)
  THEN {[data |-> RdbRest, good |-> TRUE, blob |-> Len(RdbRest)]}
  ELSE IF handshakeStep = "PING"
  THEN {[data |-> R_PONG, good |-> TRUE, blob |-> 0],
        [data |-> R_OK, good |-> FALSE, blob |-> 0]}
  ELSE IF handshakeStep \in {"REPLCONF", "PSYNC"}
  THEN {[data |-> R_OK, good |-> TRUE, blob |-> 0],
        [data |-> R_PONG, good |-> FALSE, blob |-> 0]}
  ELSE IF handshakeStep = "FULLRESYNC"
  THEN {[data |-> M_FULLRESYNC, good |-> TRUE, blob |-> 0],
        [data |-> M_FULLRESYNC \o M_RDB, good |-> TRUE, blob |-> Len(M_RDB)],
        [data |-> M_FULLRESYNC \o RdbHead, good |-> TRUE, blob |-> RdbCut]}
  ELSE IF handshakeStep = "FILE_TRANSFER"
  THEN {[data |-> M_RDB, good |-> TRUE, blob |-> Len(M_RDB)],
        [data |-> RdbHead, good |-> TRUE, blob |-> RdbCut]}
  ELSE IF handshakeStep = "DONE"
  THEN {[data |-> F_SET_k_v, good |-> TRUE, blob |-> 0],
        [data |-> F_GETACK, good |-> TRUE, blob |-> 0]}
  ELSE {}

MasterHandshake ==
  /\ mq = <<>>
  /\ deliveries < MaxHandshake
  /\ \E ch \in HandshakeChunks :
       Install(masterData(
         [World EXCEPT !.deliveries = @ + 1,
                       !.log.sent = Append(@, [conn |-> "master", n |-> arrived["master"] + 1,
                                               args |-> <<>>, data |-> ch.data,
                                               good |-> ch.good, blob |-> ch.blob,
                                               step |-> handshakeStep,
                                               written |-> Len(out["master"])])],
         ch.data))

\* a client of the replica is served unless the process spins in a handler
ReplicaClient ==
  /\ handshakeStep # "HUNG"
  /\ mq = <<>>
  /\ deliveries < MaxHandshake
  /\ \E args \in {<<S_SET, KeyK, ValW>>, <<S_GET, KeyK>>} :
       Install(execCommand(
         [World EXCEPT !.deliveries = @ + 1,
                       !.log.sent = Append(@, [conn |-> "c1", n |-> arrived["c1"] + 1,
                                               args |-> args, data |-> ClientFrame(args),
                                               good |-> TRUE, blob |-> 0,
                                               step |-> handshakeStep,
                                               written |-> Len(out["c1"])])],
         ClientFrame(args), "c1", FALSE))

NextHandshake == MasterHandshake \/ ReplicaClient \/ RunMicrotask

SpecHandshake == InitReplica /\ [][NextHandshake]_vars

(***************************************************************************)
(* Helpers of the claims.                                                  *)
(***************************************************************************)
\* every handler has run to its end
Quiescent == tasks = <<>> /\ mq = <<>>

\* the frames forwarded to connection r: the data of the writes tagged as
\* propagated, in the order they were written
RECURSIVE PropagatedTo(_)
PropagatedTo(writes) ==
  IF writes = <<>> THEN <<>>
  ELSE IF Head(writes).tag.k = "propagate"
       THEN <<Head(writes).data>> \o PropagatedTo(Tail(writes))
       ELSE PropagatedTo(Tail(writes))

\* the writes (key, value) a replica applies from the commands of a buffer
RECURSIVE WritesOf(_)
WritesOf(commands) ==
  IF commands = <<>> THEN <<>>
  ELSE IF Head(commands).name = S_SET /\ Len(Head(commands).args) >= 2
       THEN <<[key |-> Head(commands).args[1], value |-> Head(commands).args[2]]>>
            \o WritesOf(Tail(commands))
       ELSE WritesOf(Tail(commands))

AppliedWrites == [i \in 1..Len(log.applied) |->
                    [key |-> log.applied[i].key, value |-> log.applied[i].value]]

OkReply == serialazeSimpleString(S_OK)

(***************************************************************************)
(* C4.  The master calls propagateToReplicas for a command (sending bytes  *)
(* to the replicas and advancing master_repl_offset) only when the command *)
(* was executed successfully: every forward recorded answers a command     *)
(* whose reply was +OK, never an error reply and never +QUEUED.            *)
(***************************************************************************)
C4_ForwardOnlyOnSuccess ==
  \A i \in 1..Len(log.forwards) : log.forwards[i].response = OkReply

(***************************************************************************)
(* C5.  Every forward of a write command sends each replica exactly that   *)
(* command's own frame, once, and advances master_repl_offset by exactly   *)
(* that frame's length, whatever else arrived in the same delivery.        *)
(***************************************************************************)
C5_ForwardIsOwnFrame ==
  \A i \in 1..Len(log.forwards) :
    LET f == log.forwards[i]
    IN /\ f.data = f.frame
       /\ f.grew = Len(f.frame)
       /\ \A k \in 1..Len(f.fleet) :
            Cardinality({j \in 1..Len(out[f.fleet[k]]) :
                           out[f.fleet[k]][j].tag = PropagateTag(f.conn, f.n)}) = 1

(***************************************************************************)
(* C6.  Propagation is FIFO: once every handler has finished and no        *)
(* transaction is open, a replica that attached once, with PSYNC, before   *)
(* any write was applied or forwarded, has received exactly the writes the *)
(* master applied, in the order the master applied them.                   *)
(***************************************************************************)
C6_PropagationFifo ==
  (Quiescent /\ ~transactionState.isStarted /\ transactionState.queue = <<>>)
  => \A a \in 1..Len(log.attached) :
       (/\ \A b \in 1..Len(log.attached) :
              log.attached[b].conn = log.attached[a].conn => a = b
        /\ log.attached[a].applied = 0
        /\ log.attached[a].forwards = 0)
       => WritesOf(parse(Concat(PropagatedTo(out[log.attached[a].conn]))).commands)
          = AppliedWrites

\* the replies written to connection c for its command number n
RepliesTo(c, n) ==
  {j \in 1..Len(out[c]) : out[c][j].tag = ReplyTag(c, n)}

\* the last SET of key k sent before position i of log.sent, or 0
LastSetBefore(i, k) ==
  LET S == {j \in 1..(i - 1) : /\ log.sent[j].args[1] = S_SET
                               /\ Len(log.sent[j].args) = 3
                               /\ log.sent[j].args[2] = k}
  IN IF S = {} THEN 0 ELSE CHOOSE j \in S : \A m \in S : m <= j

(***************************************************************************)
(* C3.  Round trip: a GET k that follows a SET k v (no PX, answered +OK,   *)
(* no later write to k) is answered with the bulk string whose payload is  *)
(* exactly v, that is with the frame $<byte length of v>\r\n<v>\r\n, for   *)
(* every key and every value.                                              *)
(***************************************************************************)
C3_SetGetRoundTrip ==
  \A i \in 1..Len(log.sent) :
    LET g == log.sent[i]
        j == LastSetBefore(i, g.args[2])
    IN (/\ g.args[1] = S_GET
        /\ j # 0
        /\ \E r \in RepliesTo(log.sent[j].conn, log.sent[j].n) :
              out[log.sent[j].conn][r].data = OkReply)
       => \A r \in RepliesTo(g.conn, g.n) :
            out[g.conn][r].data = ClientBulk(log.sent[j].args[3])

\* id a is strictly smaller than id b in (ms, seq) order
IdLess(a, b) ==
  \/ OrZero(IdTime(a)) < OrZero(IdTime(b))
  \/ /\ OrZero(IdTime(a)) = OrZero(IdTime(b))
     /\ OrZero(IdSeq(a)) < OrZero(IdSeq(b))

(***************************************************************************)
(* C2.  Every accepted XADD stores an id strictly greater than the         *)
(* stream's lastId before the call, and in every state the lastId of a     *)
(* stream is the maximum of the ids of its entries.                        *)
(***************************************************************************)
C2_StreamIdsIncrease ==
  /\ \A i \in 1..Len(log.xadds) : IdLess(log.xadds[i].prev, log.xadds[i].id)
  /\ \A d \in 1..Len(db) :
       db[d].type = "stream"
       => \A e \in 1..Len(db[d].entries) :
            db[d].entries[e].id = db[d].lastId \/ IdLess(db[d].entries[e].id, db[d].lastId)

\* the command numbers of the replies written to connection c, in the
\* order they were written
RECURSIVE ReplyNumbers(_)
ReplyNumbers(writes) ==
  IF writes = <<>> THEN <<>>
  ELSE IF Head(writes).tag.k = "reply"
       THEN <<Head(writes).tag.n>> \o ReplyNumbers(Tail(writes))
       ELSE ReplyNumbers(Tail(writes))

(***************************************************************************)
(* C1.  On every connection the replies are written in the order the       *)
(* commands arrived: a reply to a later command is never written before    *)
(* the reply to an earlier one, also when the earlier one suspended.       *)
(***************************************************************************)
C1_RepliesInArrivalOrder ==
  \A c \in Conns :
    LET ns == ReplyNumbers(out[c])
    IN \A i, j \in 1..Len(ns) : i < j => ns[i] < ns[j]

\* the distinct replicas of the WAIT w whose ACK arrived before it resolved
AckedReplicas(w) ==
  {w.ackFrom[a].conn : a \in 1..Len(w.ackFrom)}
  \cap {w.fleet[r] : r \in 1..Len(w.fleet)}

(***************************************************************************)
(* C8.  A WAIT never resolves to more than the number of distinct replicas *)
(* whose REPLCONF ACK arrived while it was pending: repeated ACKs of one   *)
(* replica and ACKs of connections that are no replicas do not count.      *)
(***************************************************************************)
C8_WaitCountsReplicas ==
  \A i \in 1..Len(log.waits) :
    log.waits[i].resolved
    => log.waits[i].value <= Cardinality(AckedReplicas(log.waits[i]))

(***************************************************************************)
(* C9.  A suspended WAIT n t replies once: it resolves as soon as the n-th *)
(* ACK is counted for it, and the value it resolves to, then or at its     *)
(* timeout, is the number of ACKs counted for it.                          *)
(***************************************************************************)
C9_WaitRepliesItsCount ==
  \A i \in 1..Len(log.waits) :
    LET w == log.waits[i]
    IN /\ w.replied <= 1
       /\ w.resolved => w.value = w.counted
       /\ (~w.goal.nan /\ w.counted >= w.goal.v) => w.resolved

\* the invocations suspended in a blocking XREAD
PendingXread ==
  {t \in DOMAIN tasks : /\ tasks[t].awaiting # 0
                        /\ tasks[t].pc = "outer"
                        /\ toUpperCase(tasks[t].results[tasks[t].i].name) = S_XREAD}

\* the WAITs that suspended and have not been resolved
PendingWait == {i \in 1..Len(log.waits) : ~log.waits[i].resolved}

(***************************************************************************)
(* C10.  In every reachable state at most one WAIT and at most one         *)
(* blocking XREAD is pending.                                              *)
(***************************************************************************)
C10_OnePendingWaitAndXread ==
  Cardinality(PendingWait) <= 1 /\ Cardinality(PendingXread) <= 1

(***************************************************************************)
(* C7.  On a replica that has finished the handshake and has handled all   *)
(* it received, master_repl_offset is the total length of the command      *)
(* frames the master sent after the RDB blob, however the stream was cut   *)
(* into data events.                                                       *)
(***************************************************************************)
C7_ReplicaOffsetIsBytesReceived ==
  (handshakeStep = "DONE" /\ Quiescent)
  => serverState.master_repl_offset = log.fromMaster

\* the MULTIs that opened the transaction in which command i of log.sent
\* arrived: sent before it on the same connection, answered +OK, with no
\* EXEC of that connection in between
OpenMultis(i) ==
  {j \in 1..(i - 1) :
     /\ log.sent[j].conn = log.sent[i].conn
     /\ log.sent[j].args = <<S_MULTI>>
     /\ \E r \in RepliesTo(log.sent[j].conn, log.sent[j].n) :
          out[log.sent[j].conn][r].data = OkReply
     /\ \A k \in (j + 1)..(i - 1) :
          log.sent[k].conn = log.sent[i].conn => log.sent[k].args # <<S_EXEC>>}

\* the writes to the store made while command i of log.sent was executed
AppliedBy(i) ==
  SelectSeq(log.applied,
            LAMBDA a : a.conn = log.sent[i].conn /\ a.n = log.sent[i].n)

QueuedReply == serialazeSimpleString(S_QUEUED)

(***************************************************************************)
(* C11.  After MULTI was answered +OK on a connection, every command other *)
(* than EXEC received on that connection is answered +QUEUED and changes   *)
(* nothing in the store when it is received.                               *)
(***************************************************************************)
C11_QueuedAfterMulti ==
  \A i \in 1..Len(log.sent) :
    (log.sent[i].args # <<S_EXEC>> /\ OpenMultis(i) # {})
    => /\ \A r \in RepliesTo(log.sent[i].conn, log.sent[i].n) :
            out[log.sent[i].conn][r].data = QueuedReply
       /\ AppliedBy(i) = <<>>

(***************************************************************************)
(* C12.  EXEC on a connection that has no open transaction of its own is   *)
(* answered with the error "ERR EXEC without MULTI" and executes nothing,  *)
(* also while another connection has an open transaction.                  *)
(***************************************************************************)
C12_ExecWithoutOwnMulti ==
  \A i \in 1..Len(log.sent) :
    (log.sent[i].args = <<S_EXEC>> /\ OpenMultis(i) = {})
    => /\ \A r \in RepliesTo(log.sent[i].conn, log.sent[i].n) :
            out[log.sent[i].conn][r].data = serialazeSimpleError(E_ExecWithoutMulti)
       /\ AppliedBy(i) = <<>>

\* the commands a connection queued for the EXEC at position i of log.sent:
\* what it sent since the MULTI that opened its transaction
QueuedFor(i) ==
  LET j == CHOOSE j \in OpenMultis(i) : \A m \in OpenMultis(i) : j <= m
  IN SelectSeq([k \in 1..(i - 1 - j) |-> log.sent[j + k]],
               LAMBDA s : s.conn = log.sent[i].conn)

\* the writes of a sequence of sent commands
RECURSIVE SetsOf(_)
SetsOf(sent) ==
  IF sent = <<>> THEN <<>>
  ELSE IF Head(sent).args[1] = S_SET
       THEN <<[key |-> Head(sent).args[2], value |-> Head(sent).args[3]]>>
            \o SetsOf(Tail(sent))
       ELSE SetsOf(Tail(sent))

(***************************************************************************)
(* C13.  EXEC on a connection with an open transaction runs exactly the    *)
(* commands this connection queued since its MULTI, in that order, and     *)
(* replies with the array of their responses (here every queued command    *)
(* answers +OK), whatever other connections did in between.                *)
(***************************************************************************)
C13_ExecRunsOwnQueue ==
  \A i \in 1..Len(log.sent) :
    (log.sent[i].args = <<S_EXEC>> /\ OpenMultis(i) # {})
    => /\ \A r \in RepliesTo(log.sent[i].conn, log.sent[i].n) :
            /\ out[log.sent[i].conn][r].data
                 = serialazeArray([q \in 1..Len(QueuedFor(i)) |-> OkReply])
            /\ [a \in 1..Len(AppliedBy(i)) |->
                  [key |-> AppliedBy(i)[a].key, value |-> AppliedBy(i)[a].value]]
                 = SetsOf(QueuedFor(i))
       /\ Quiescent => RepliesTo(log.sent[i].conn, log.sent[i].n) # {}

\* the ids of the XADDs to `key` that were sent before position i of
\* log.sent and accepted (answered with the id)
XaddsBefore(i, key) ==
  {log.sent[j].args[3] : j \in {j \in 1..(i - 1) :
     /\ log.sent[j].args[1] = S_XADD
     /\ log.sent[j].args[2] = key
     /\ \E r \in RepliesTo(log.sent[j].conn, log.sent[j].n) :
          out[log.sent[j].conn][r].data = serialazeBulkString(log.sent[j].args[3])}}

\* the entries the stream `key` held when command i of log.sent arrived
EntriesAt(i, key) ==
  IF ~dbHas(db, key) THEN <<>>
  ELSE SelectSeq(dbGet(db, key).entries, LAMBDA e : e.id \in XaddsBefore(i, key))

\* those of them that are newer than the id `start`
NewerAt(i, key, start) ==
  SelectSeq(EntriesAt(i, key), LAMBDA e : IdLess(start, e.id))

\* the reply of XREAD for one key: [[key, [[id, [field, value, ...]], ...]]]
XreadReply(key, es) ==
  serialazeArray(<<serialazeArray(<<
    serialazeBulkString(key),
    serialazeArray([k \in 1..Len(es) |->
      serialazeArray(<<serialazeBulkString(es[k].id),
                       serialazeBulkStringArray(flattenPairs(es[k].values))>>)])>>)>>)

\* command i of log.sent is XREAD BLOCK ms STREAMS key id
IsBlockingXread(i) ==
  /\ log.sent[i].args[1] = S_XREAD
  /\ log.sent[i].args[2] = S_block
  /\ Len(log.sent[i].args) = 6

\* command i of log.sent is XREAD STREAMS key id
IsXread(i) ==
  /\ log.sent[i].args[1] = S_XREAD
  /\ log.sent[i].args[2] = S_streams
  /\ Len(log.sent[i].args) = 4

\* the invocation that handles command i of log.sent is suspended
Suspended(i) ==
  \E t \in DOMAIN tasks :
    /\ tasks[t].conn = log.sent[i].conn
    /\ tasks[t].base + tasks[t].i = log.sent[i].n
    /\ tasks[t].awaiting # 0

NullBulk == <<36, 45, 49, 13, 10>>

(***************************************************************************)
(* C14.  A blocking XREAD is completed by an XADD only with entries newer  *)
(* than the start id it gave: its reply is the null bulk of the timeout or *)
(* holds only entries of the watched stream whose id is strictly greater   *)
(* than that start id.                                                     *)
(***************************************************************************)
C14_BlockedXreadWakesOnNewer ==
  \A i \in 1..Len(log.sent) :
    IsBlockingXread(i)
    => LET key == log.sent[i].args[5]
           N == IF dbHas(db, key)
                THEN SelectSeq(dbGet(db, key).entries,
                               LAMBDA e : IdLess(log.sent[i].args[6], e.id))
                ELSE <<>>
       IN \A r \in RepliesTo(log.sent[i].conn, log.sent[i].n) :
            \/ out[log.sent[i].conn][r].data = NullBulk
            \/ \E a, b \in 1..Len(N) :
                 a <= b /\ out[log.sent[i].conn][r].data = XreadReply(key, SubSeq(N, a, b))

(***************************************************************************)
(* C15.  XREAD with BLOCK does not suspend when a watched stream already   *)
(* holds an entry newer than the given id: it replies at once with those   *)
(* entries.                                                                *)
(***************************************************************************)
C15_BlockOnlyWhenEmpty ==
  \A i \in 1..Len(log.sent) :
    (IsBlockingXread(i)
     /\ NewerAt(i, log.sent[i].args[5], log.sent[i].args[6]) # <<>>)
    => /\ ~Suspended(i)
       /\ \A r \in RepliesTo(log.sent[i].conn, log.sent[i].n) :
            out[log.sent[i].conn][r].data
              = XreadReply(log.sent[i].args[5],
                           NewerAt(i, log.sent[i].args[5], log.sent[i].args[6]))

(***************************************************************************)
(* C16.  XREAD without BLOCK returns exactly the entries of the stream     *)
(* whose id is strictly greater than the given id; an entry with the given *)
(* id is not returned, and with "$" no existing entry is returned.         *)
(***************************************************************************)
C16_XreadReturnsNewer ==
  \A i \in 1..Len(log.sent) :
    (IsXread(i) /\ EntriesAt(i, log.sent[i].args[3]) # <<>>)
    => \A r \in RepliesTo(log.sent[i].conn, log.sent[i].n) :
         out[log.sent[i].conn][r].data
           = XreadReply(log.sent[i].args[3],
                        IF log.sent[i].args[4] = S_DOLLAR THEN <<>>
                        ELSE NewerAt(i, log.sent[i].args[3], log.sent[i].args[4]))

\* start <= id <= end in (ms, seq) order; a bound "<ms>" has seq 0 as a
\* start and no upper seq as an end
InRange(id, start, end) ==
  LET t == OrZero(IdTime(id))
      q == OrZero(IdSeq(id))
      st == OrZero(IdTime(start))
      sq == OrZero(IdSeq(start))
      et == OrZero(IdTime(end))
      eq == OrZero(IdSeq(end))
  IN /\ (st < t \/ (st = t /\ sq <= q))
     /\ (t < et \/ (t = et /\ (~Includes(end, 45) \/ q <= eq)))

\* the reply of XRANGE: [[id, [field, value, ...]], ...]
RangeReply(es) ==
  serialazeArray([k \in 1..Len(es) |->
    serialazeArray(<<serialazeBulkString(es[k].id),
                     serialazeBulkStringArray(flattenPairs(es[k].values))>>)])

(***************************************************************************)
(* C17.  XRANGE key start end returns exactly the entries of the stream    *)
(* with start <= id <= end in (ms, seq) order, in insertion order, also    *)
(* when the bounds have different ms parts or the end seq is 0.            *)
(***************************************************************************)
C17_XrangeReturnsRange ==
  \A i \in 1..Len(log.sent) :
    (log.sent[i].args[1] = S_XRANGE /\ EntriesAt(i, log.sent[i].args[2]) # <<>>)
    => \A r \in RepliesTo(log.sent[i].conn, log.sent[i].n) :
         out[log.sent[i].conn][r].data
           = RangeReply(SelectSeq(EntriesAt(i, log.sent[i].args[2]),
                                  LAMBDA e : InRange(e.id, log.sent[i].args[3],
                                                     log.sent[i].args[4])))

\* the last command before position i of log.sent that writes key k, or 0
LastWriteBefore(i, k) ==
  LET S == {j \in 1..(i - 1) : /\ log.sent[j].args[1] \in {S_SET, S_INCR}
                               /\ log.sent[j].args[2] = k}
  IN IF S = {} THEN 0 ELSE CHOOSE j \in S : \A m \in S : m <= j

\* command i arrives when the string last stored under k has expired
ReadsExpired(i, k) ==
  LET j == LastWriteBefore(i, k)
  IN /\ j # 0
     /\ log.sent[j].args[1] = S_SET
     /\ Len(log.sent[j].args) = 5
     /\ log.sent[j].at + 1 <= log.sent[i].at

\* what a reader answers when its key is absent
AbsentReply(name) ==
  CASE name = S_GET -> NullBulk
    [] name = S_TYPE -> serialazeSimpleString(S_none)
    [] name = S_KEYS -> serialazeArray(<<>>)
    [] name = S_INCR -> serialazeInteger(1)

(***************************************************************************)
(* C18.  A string whose expiry has passed is absent for every reader: GET  *)
(* answers the null bulk string, TYPE answers none, KEYS * does not list   *)
(* the key, and INCR answers 1 as on a missing key.                        *)
(***************************************************************************)
C18_ExpiredIsAbsent ==
  \A i \in 1..Len(log.sent) :
    (/\ log.sent[i].args[1] \in {S_GET, S_TYPE, S_KEYS, S_INCR}
     /\ ReadsExpired(i, KeyK))
    => \A r \in RepliesTo(log.sent[i].conn, log.sent[i].n) :
         out[log.sent[i].conn][r].data = AbsentReply(log.sent[i].args[1])

\* the writes to its connection that data event i of log.sent caused: the
\* next data event on this connection, or the present, ends them
WritesFor(i) ==
  LET c == log.sent[i].conn
      L == {j \in (i + 1)..Len(log.sent) : log.sent[j].conn = c}
      last == IF L = {} THEN Len(out[c])
              ELSE log.sent[CHOOSE j \in L : \A m \in L : j <= m].written
  IN (log.sent[i].written + 1)..last

\* the SETs the store took because of data event i of log.sent
AppliedFrom(i) ==
  LET last == IF i = Len(log.sent) THEN Len(log.applied) ELSE log.sent[i + 1].stored
  IN (log.sent[i].stored + 1)..last

(***************************************************************************)
(* C19.  A frame that arrives in two data events is executed exactly once, *)
(* after the second: the first part executes nothing and writes neither a  *)
(* reply nor an error, and once the second part is handled the connection  *)
(* holds the one reply of the command and the store its one effect.        *)
(***************************************************************************)
C19_SplitFrameRunsOnce ==
  \A i \in 1..Len(log.sent) :
    LET s == log.sent[i]
    IN /\ s.part = 1
          => /\ WritesFor(i) = {}
             /\ AppliedFrom(i) = {}
       /\ (s.part = 2 /\ (mq = <<>> \/ i < Len(log.sent)))
          => /\ Cardinality(WritesFor(i)) = 1
             /\ \A r \in WritesFor(i) :
                  out[s.conn][r].data
                    = serialazeSimpleString(IF s.args[1] = S_SET THEN S_OK ELSE S_PONG)
             /\ Cardinality(AppliedFrom(i))
                  = (IF s.args[1] = S_SET THEN 1 ELSE 0)

\* the ASCII upper case of a byte string
UpperBytes(bytes) ==
  [i \in 1..Len(bytes) |-> IF bytes[i] >= 97 /\ bytes[i] <= 122 THEN bytes[i] - 32
                           ELSE bytes[i]]

RECURSIVE SumLengths(_)
SumLengths(commands) ==
  IF commands = <<>> THEN 0 ELSE Head(commands).length + SumLengths(Tail(commands))

\* the parser's result r is the commands of the frames of batch, in order
ParsedAs(r, batch) ==
  /\ r.err = NoError
  /\ Len(r.commands) = Len(batch)
  /\ \A k \in 1..Len(batch) :
       /\ Utf8Encode(r.commands[k].name) = UpperBytes(batch[k][1])
       /\ Len(r.commands[k].args) = Len(batch[k]) - 1
       /\ \A a \in 1..(Len(batch[k]) - 1) :
            Utf8Encode(r.commands[k].args[a]) = batch[k][a + 1]
       /\ r.commands[k].length = Len(RawFrame(batch[k]))
  /\ SumLengths(r.commands) = Len(BatchBytes(batch))

(***************************************************************************)
(* C20.  For a buffer that is the concatenation of N well-formed frames    *)
(* the parser returns exactly N commands in the buffer's order, each with  *)
(* the upper-cased name and the arguments (the payload bytes) of its       *)
(* frame and with its frame's byte length, and the lengths sum to the      *)
(* length of the buffer.                                                   *)
(***************************************************************************)
C20_ParserFrames ==
  \A i \in 1..Len(log.sent) :
    \E r \in {parse(BatchBytes(log.sent[i].batch))} : ParsedAs(r, log.sent[i].batch)

\* data event i of log.sent has been handled to its end
Handled(i) == i < Len(log.sent) \/ mq = <<>>

\* what is observed once data event i has been handled
ObservedAfter(i) ==
  IF i = Len(log.sent) THEN Observed(World) ELSE log.sent[i + 1].before

(***************************************************************************)
(* C21.  A buffer that holds a malformed frame executes none of its        *)
(* commands: the data store, the replication state and the transaction     *)
(* state are as before the delivery, and exactly one simple-error frame is *)
(* written to the connection.                                              *)
(***************************************************************************)
C21_MalformedRejected ==
  \A i \in 1..Len(log.sent) :
    (log.sent[i].bad /\ Handled(i))
    => /\ ObservedAfter(i) = log.sent[i].before
       /\ Cardinality(WritesFor(i)) = 1
       /\ \A r \in WritesFor(i) : out[log.sent[i].conn][r].data[1] = 45

\* how many writes each connection has been given once data event i has
\* been handled
WrittenAfter(i) ==
  IF i = Len(log.sent) THEN Written(World) ELSE log.sent[i + 1].outs

\* the last id of the stream under key in database d, "0-0" without one
LastIdIn(d, key) == IF dbHas(d, key) THEN dbGet(d, key).lastId ELSE S_ZeroZero

\* an id of the form <ms>-<seq>
IsExplicitId(id) == id # S_STAR /\ At(Split(id, 45), 1) # S_STAR

\* the error XADD owes to an explicit id it must refuse, NoError otherwise
RefusalOf(id, last) ==
  IF id = S_ZeroZero THEN E_IdZero
  ELSE IF IdLess(id, last) \/ id = last THEN E_IdSmaller
  ELSE NoError

\* data event i changed nothing but the reply it wrote to its connection
OnlyReplied(i) ==
  /\ ObservedAfter(i) = log.sent[i].before
  /\ \A c \in Conns \ {log.sent[i].conn} : WrittenAfter(i)[c] = log.sent[i].outs[c]

(***************************************************************************)
(* C22.  An XADD with an explicit id that is 0-0, or that is not greater   *)
(* than the stream's last id, is answered with the error of its case; and  *)
(* every XADD answered with an error leaves the stream's entries and last  *)
(* id as they were, creates no key and wakes no blocking XREAD.            *)
(***************************************************************************)
C22_XaddRejected ==
  \A i \in 1..Len(log.sent) :
    (log.sent[i].args[1] = S_XADD /\ Handled(i))
    => \E e \in {RefusalOf(log.sent[i].args[3],
                           LastIdIn(log.sent[i].before.db, log.sent[i].args[2]))} :
         \A r \in WritesFor(i) :
           /\ (IsExplicitId(log.sent[i].args[3]) /\ e # NoError)
                => out[log.sent[i].conn][r].data = serialazeSimpleError(e)
           /\ out[log.sent[i].conn][r].data[1] = 45 => OnlyReplied(i)

\* an XADD below the last id was refused while an XREAD was blocked
C22_Witness ==
  \E i \in 1..Len(log.sent) :
    /\ log.sent[i].args[1] = S_XADD
    /\ Handled(i)
    /\ log.sent[i].before.block.isBlocking
    /\ log.sent[i].before.db # <<>>
    /\ RefusalOf(log.sent[i].args[3],
                 LastIdIn(log.sent[i].before.db, log.sent[i].args[2])) = E_IdSmaller
    /\ \E r \in WritesFor(i) :
         out[log.sent[i].conn][r].data = serialazeSimpleError(E_IdSmaller)

(***************************************************************************)
(* C23.  A REPLCONF ACK by which a replica answers the GETACK of a WAIT is *)
(* never answered: the master writes nothing to the replica's connection   *)
(* for it, whether the WAIT is still pending when the ACK arrives or has   *)
(* already completed by its timeout.                                       *)
(***************************************************************************)
C23_AckNeverAnswered ==
  \A i \in 1..Len(log.sent) :
    log.sent[i].args = A_ACK => RepliesTo(log.sent[i].conn, log.sent[i].n) = {}

\* a WAIT completed by its timeout without an ACK, and the ACK that answers
\* its GETACK arrived afterwards and has been handled
C23_Witness ==
  \E i \in 1..Len(log.sent) :
    /\ log.sent[i].args = A_ACK
    /\ Handled(i)
    /\ log.sent[i].before.tasks = <<>>
    /\ \E w \in 1..Len(log.waits) : log.waits[w].resolved /\ log.waits[w].ackFrom = <<>>

\* the replies a replica owes its master for the frames of one data event,
\* `received` bytes of stream having come before it: one REPLCONF ACK for
\* each GETACK frame, with the offset of the bytes before that frame
RECURSIVE AcksOwed(_, _)
AcksOwed(frames, received) ==
  IF frames = <<>> THEN <<>>
  ELSE (IF Head(frames) = F_GETACK
        THEN <<serialazeBulkStringArray(<<S_REPLCONF, S_ACK, NumToString(received)>>)>>
        ELSE <<>>)
       \o AcksOwed(Tail(frames), received + Len(Head(frames)))

\* the bytes written to connection c by its writes number lo + 1 .. hi
WrittenData(c, lo, hi) == [k \in 1..(hi - lo) |-> out[c][lo + k].data]

(***************************************************************************)
(* C24.  After the handshake a replica writes to its master only the       *)
(* replies to REPLCONF: for a data event from the master it writes one     *)
(* REPLCONF ACK for each GETACK frame of the event, carrying the number of *)
(* stream bytes received before that frame, and nothing for any other      *)
(* input.                                                                  *)
(***************************************************************************)
C24_ReplicaRepliesOnlyToReplconf ==
  \A i \in 1..Len(log.sent) :
    (log.sent[i].conn = "master" /\ log.sent[i].step = "DONE" /\ Handled(i))
    => WrittenData("master", log.sent[i].written,
                   IF i = Len(log.sent) THEN Len(out["master"])
                   ELSE log.sent[i + 1].written)
         = AcksOwed(log.sent[i].frames, log.sent[i].received)

\* the handshake messages of a replica, in the order it owes them
HandshakeMessages ==
  << serialazeArray(<<serialazeBulkString(S_PING)>>),
     serialazeBulkStringArray(<<S_REPLCONF, S_listening_port, NumToString(port)>>),
     serialazeBulkStringArray(<<S_REPLCONF, S_capa, S_psync2>>),
     serialazeBulkStringArray(<<S_PSYNC, S_QMARK, S_MINUS1>>) >>

\* the data events the master has sent
FromMasterSent == SelectSeq(log.sent, LAMBDA s : s.conn = "master")

\* how many of the first three data events of the master are, in order, the
\* replies the handshake expects
RECURSIVE GoodReplies(_, _)
GoodReplies(sent, k) ==
  IF sent = <<>> \/ k = 3 \/ ~Head(sent).good THEN k
  ELSE GoodReplies(Tail(sent), k + 1)

\* the handshake messages written to the master
HandshakeWritten ==
  [k \in 1..Len(SelectSeq(out["master"], LAMBDA w : w.tag.k = "handshake")) |->
     SelectSeq(out["master"], LAMBDA w : w.tag.k = "handshake")[k].data]

(***************************************************************************)
(* C25.  The replica sends PING, REPLCONF listening-port, REPLCONF capa    *)
(* and PSYNC in this order, each once and only when the expected reply to  *)
(* the one before has arrived; and it reaches the streaming state, where   *)
(* bytes from the master are applied as commands, only when the FULLRESYNC *)
(* line and the whole RDB blob have been received.                         *)
(***************************************************************************)
C25_HandshakeInOrder ==
  /\ HandshakeWritten = SubSeq(HandshakeMessages, 1, 1 + GoodReplies(FromMasterSent, 0))
  /\ handshakeStep = "DONE" => BlobDelivered = Len(M_RDB)

\* the three steps in which the replica waits for a fixed reply
FixedReplySteps == {"PING", "REPLCONF", "PSYNC"}

(***************************************************************************)
(* C26.  When the bytes received in handshake step PING, REPLCONF or PSYNC *)
(* are not the expected reply, the handler of that data event terminates   *)
(* and the handshake stops: nothing more is written to the master and the  *)
(* process goes on serving.                                                *)
(***************************************************************************)
C26_MismatchAbortsHandshake ==
  \A i \in 1..Len(log.sent) :
    (/\ log.sent[i].conn = "master"
     /\ log.sent[i].step \in FixedReplySteps
     /\ ~log.sent[i].good)
    => /\ handshakeStep # "HUNG"
       /\ Len(out["master"]) = log.sent[i].written

\* the replicas attached and not closed when data event j arrived
LiveReplicasAt(j) ==
  {c \in Conns : /\ \E a \in SentBy(c, S_PSYNC) : a < j
                 /\ \A z \in ClosedAt(c) : z > j}

(***************************************************************************)
(* C27.  A replica whose connection has closed is no longer one of the     *)
(* master's replicas: nothing is written to it afterwards, and a WAIT that *)
(* is answered at once (nothing propagated yet) answers the number of      *)
(* replicas still connected.                                               *)
(***************************************************************************)
C27_ClosedReplicaDropped ==
  \A i \in 1..Len(log.sent) :
    /\ log.sent[i].args = CloseEvent
         => Len(out[log.sent[i].conn]) = log.sent[i].written
    /\ (log.sent[i].args = A_WAIT_1 /\ log.sent[i].before.offset = 0)
         => \A r \in RepliesTo(log.sent[i].conn, log.sent[i].n) :
              out[log.sent[i].conn][r].data
                = serialazeInteger(Cardinality(LiveReplicasAt(i)))

\* data event i of log.sent is XREAD block <ms> ...
BlocksFor(i, ms) ==
  /\ log.sent[i].args[1] = S_XREAD
  /\ log.sent[i].args[2] = S_block
  /\ log.sent[i].args[3] = ms

\* no XADD arrived after data event i
NoXaddSince(i) ==
  \A j \in (i + 1)..Len(log.sent) : log.sent[j].args[1] # S_XADD

\* no blocking XREAD arrived after the write number r to connection c
NoBlockSinceWrite(c, r) ==
  \A j \in 1..Len(log.sent) :
    (log.sent[j].args[1] = S_XREAD /\ log.sent[j].args[2] = S_block)
    => log.sent[j].outs[c] < r

\* the timers armed for the promise a task of connection c awaits
TimersOf(c) ==
  {tm \in timers : \E t \in DOMAIN tasks : tasks[t].conn = c /\ tasks[t].awaiting = tm.promise}

(***************************************************************************)
(* C28.  A blocking XREAD with a timeout of ms > 0 that no XADD wakes is   *)
(* answered once, with the null bulk string, not before ms have passed,    *)
(* and when it has been answered no blocking XREAD is registered; with     *)
(* ms = 0 no timer is armed and the XREAD is not answered unless an XADD   *)
(* arrives.                                                                *)
(***************************************************************************)
C28_XreadTimeout ==
  \A i \in 1..Len(log.sent) :
    /\ (BlocksFor(i, S_ONE) /\ NoXaddSince(i))
         => /\ Cardinality(RepliesTo(log.sent[i].conn, log.sent[i].n)) <= 1
            /\ \A r \in RepliesTo(log.sent[i].conn, log.sent[i].n) :
                 /\ out[log.sent[i].conn][r].data = NullBulk
                 /\ now >= log.sent[i].at + 1
                 /\ NoBlockSinceWrite(log.sent[i].conn, r) => ~blockState.isBlocking
    /\ (BlocksFor(i, S_ZERO) /\ NoXaddSince(i))
         => /\ RepliesTo(log.sent[i].conn, log.sent[i].n) = {}
            /\ TimersOf(log.sent[i].conn) = {}

\* a blocking XREAD timed out and was answered with the null bulk string
\* while an XREAD without timeout stays blocked
C28_Witness ==
  \E i, j \in 1..Len(log.sent) :
    /\ BlocksFor(i, S_ONE) /\ NoXaddSince(i)
    /\ \E r \in RepliesTo(log.sent[i].conn, log.sent[i].n) :
         out[log.sent[i].conn][r].data = NullBulk
    /\ BlocksFor(j, S_ZERO) /\ NoXaddSince(j)
    /\ \E t \in DOMAIN tasks : tasks[t].conn = log.sent[j].conn
    /\ now >= log.sent[j].at + 1

\* what GET, TYPE, KEYS and INFO report once command i of the history has
\* run to its end: the report taken when the next command was sent, or the
\* one of the present state when it is the last and nothing is left to run
ReportAfter(i) ==
  IF i < Len(log.sent) THEN log.sent[i + 1].before ELSE Report(World)

RanToEnd(i) == i < Len(log.sent) \/ (mq = <<>> /\ tasks = <<>>)

\* C29: on a master, SET k v followed by the same SET k v is answered +OK
\* twice, and GET, TYPE, KEYS and INFO report the same after the second as
\* after the first.
C29_SetIdempotent ==
  \A i \in 1..(Len(log.sent) - 1) :
    (/\ log.sent[i].args = <<S_SET, KeyK, ValV>>
     /\ log.sent[i + 1].args = <<S_SET, KeyK, ValV>>
     /\ RanToEnd(i + 1))
    => /\ \A j \in {i, i + 1} :
            /\ Cardinality(RepliesTo("c1", log.sent[j].n)) = 1
            /\ \A r \in RepliesTo("c1", log.sent[j].n) :
                 out["c1"][r].data = serialazeSimpleString(S_OK)
       /\ ReportAfter(i + 1) = ReportAfter(i)

\* the store once delivery i of the history has run to its end
DbAfter(i) == IF i < Len(log.sent) THEN log.sent[i + 1].before ELSE db

\* the reply a command that follows a refused SET gets when it runs normally
NormalReply(args, store) ==
  IF args[1] = S_PING THEN serialazeSimpleString(S_PONG)
  ELSE cmdGET([World EXCEPT !.db = store], <<KeyK>>, NoCtx).response.bytes

AnsweredWith(n, bytes) ==
  /\ Cardinality(RepliesTo("c1", n)) = 1
  /\ \A r \in RepliesTo("c1", n) : out["c1"][r].data = bytes

\* C30: SET k v PX with the milliseconds missing or not a number is answered
\* with the simple error ERR syntax error, leaves the store as it was, and
\* the commands after it on the connection, those of the same delivery
\* included, are executed and answered as usual.
C30_BadPxIsCommandError ==
  \A i \in 1..Len(log.sent) :
    (log.sent[i].args \in BadPx /\ RanToEnd(i))
    => /\ AnsweredWith(log.sent[i].n, serialazeSimpleError(E_SyntaxError))
       /\ DbAfter(i) = log.sent[i].before
       /\ \A j \in 2..Len(log.sent[i].batch) :
            AnsweredWith(log.sent[i].n + j - 1,
                         NormalReply(log.sent[i].batch[j], log.sent[i].before))
       /\ \A k \in (i + 1)..Len(log.sent) :
            (log.sent[k].args \in PxFollowers /\ RanToEnd(k))
            => AnsweredWith(log.sent[k].n, NormalReply(log.sent[k].args, log.sent[k].before))

\* data event i of the history is an XADD to the stream a blocking XREAD
\* was registered for, and an invocation was still suspended on that XREAD
WokeXread(i) ==
  /\ log.sent[i].args = A_XADD
  /\ log.sent[i].before.block.isBlocking
  /\ Includes(log.sent[i].before.block.blockingKeys, KeyS)
  /\ \E t \in DOMAIN log.sent[i].before.tasks :
       /\ log.sent[i].before.tasks[t].awaiting # 0
       /\ log.sent[i].before.tasks[t].awaiting
            = log.sent[i].before.block.resolvePromise.promise

(***************************************************************************)
(* C31.  An XADD that wakes a blocking XREAD clears the blocking-XREAD     *)
(* registration (no reader is registered and the resolver is the empty     *)
(* one again) and leaves the WAIT registration as it was: goal, count,     *)
(* pending flag and resolver.                                              *)
(***************************************************************************)
C31_WakeClearsBlockOnly ==
  \A i \in 1..Len(log.sent) :
    WokeXread(i)
    => /\ ~log.sent[i].after.block.isBlocking
       /\ log.sent[i].after.block.resolvePromise = NoResolver
       /\ log.sent[i].after.wait = log.sent[i].before.wait

\* what the file says an entry holds
EntryValue(e) ==
  StringValue(e.key, e.value,
              IF e.op = 252 THEN ExpireAt(e.time)
              ELSE IF e.op = 253 THEN ExpireAt(e.time * 1000)
              ELSE NoExpire)

\* the store a file of these entries describes: a later entry of a key
\* replaces the earlier one
RECURSIVE StoreOf(_)
StoreOf(entries) ==
  IF entries = <<>> THEN <<>>
  ELSE dbSet(StoreOf(SubSeq(entries, 1, Len(entries) - 1)),
             EntryValue(entries[Len(entries)]))

(***************************************************************************)
(* C32.  A file whose table size is the number of its entries loads, and   *)
(* every key holds the value and the expiry of its entry: none, the        *)
(* milliseconds after 0xFC, or the seconds after 0xFD times 1000.  A file  *)
(* whose table size differs from the number of entries before EOF is       *)
(* refused.                                                                *)
(***************************************************************************)
C32_RdbLoadsEntries ==
  Len(log.sent) >= 2
  => IF log.sent[1].tableSize = Len(log.sent[1].entries)
     THEN /\ log.sent[2].ok
          /\ log.sent[2].loaded = StoreOf(log.sent[1].entries)
     ELSE ~log.sent[2].ok

\* the WAIT of the history that data event i started, or 0 when it was
\* answered without suspending
WaitOf(i) ==
  IF \E w \in 1..Len(log.waits) : /\ log.waits[w].conn = log.sent[i].conn
                                  /\ log.waits[w].n = log.sent[i].n
  THEN CHOOSE w \in 1..Len(log.waits) : /\ log.waits[w].conn = log.sent[i].conn
                                        /\ log.waits[w].n = log.sent[i].n
  ELSE 0

(***************************************************************************)
(* C33.  Every reply to WAIT n t is an integer between 0 and n, and the    *)
(* value a suspended WAIT resolves to is not more than the ACKs counted    *)
(* while it was the registered WAIT, also when another client's WAIT       *)
(* starts before it has resolved.                                          *)
(***************************************************************************)
C33_WaitReplyWithinGoal ==
  \A i \in 1..Len(log.sent) :
    log.sent[i].args[1] = S_WAIT
    => /\ \A r \in RepliesTo(log.sent[i].conn, log.sent[i].n) :
            \E v \in 0..Number(log.sent[i].args[2]).v :
              out[log.sent[i].conn][r].data = serialazeInteger(v)
       /\ (WaitOf(i) # 0 /\ log.waits[WaitOf(i)].resolved)
            => log.waits[WaitOf(i)].value <= log.waits[WaitOf(i)].counted

\* a replica whose handshake is done and that has received no command yet
ReplicaStart ==
  [db |-> <<>>,
   serverState |-> [role |-> "slave", master_repl_offset |-> 0,
                    replicas_connections |-> <<>>],
   waitState |-> waitStateInit, noResponseQueue |-> <<>>,
   blockState |-> blockStateInit, transactionState |-> transactionStateInit,
   tasks |-> <<>>, mq |-> <<>>, timers |-> {}, nextId |-> 1,
   handshakeStep |-> "DONE", out |-> [c \in Conns |-> <<>>],
   arrived |-> [c \in Conns |-> 0], now |-> 1, deliveries |-> 0, log |-> logInit]

\* the microtask queue run until it is empty
RECURSIVE Drain(_)
Drain(W) == IF W.mq = <<>> THEN W ELSE Drain(runMicrotask(W))

\* the replica after the writes from position i on have arrived, each write
\* of the master one data event of masterConnection
RECURSIVE ReplicaApply(_, _, _)
ReplicaApply(W, writes, i) ==
  IF i > Len(writes) THEN W
  ELSE ReplicaApply(
         IF writes[i].tag.k \in {"propagate", "getack"}
         THEN Drain(execCommand(W, writes[i].data, "master", TRUE))
         ELSE W,
         writes, i + 1)

\* the replica behind connection c once it has applied all that was
\* forwarded to it
ReplicaAfter(c) == ReplicaApply(ReplicaStart, out[c], 1)

StringOf(d, key) ==
  IF dbHas(d, key) /\ dbGet(d, key).type = "string" THEN <<dbGet(d, key).value>> ELSE <<>>

(***************************************************************************)
(* C34.  Clients write with SET only, directly or inside MULTI/EXEC, and   *)
(* the replica was attached before the first write.  When the master has   *)
(* nothing left to run, no transaction is open and the replica has applied *)
(* all that was forwarded to it, the replica holds for every key the       *)
(* string the master holds, and its master_repl_offset is the master's.    *)
(***************************************************************************)
C34_ReplicaConverges ==
  (/\ mq = <<>>
   /\ tasks = <<>>
   /\ ~transactionState.isStarted
   /\ serverState.replicas_connections = <<"c3">>)
  => \E R \in {ReplicaAfter("c3")} :
       /\ \A key \in {KeyK} : StringOf(R.db, key) = StringOf(db, key)
       /\ R.serverState.master_repl_offset = serverState.master_repl_offset

\* how often connection c stands in the no-response queue
MarksOf(c) == Cardinality({j \in 1..Len(noResponseQueue) : noResponseQueue[j] = c})

\* the GETACKs written to c that c has not answered with an ACK yet
UnansweredGetAcks(c) ==
  Cardinality(GetAcksTo(c)) - Cardinality(SentBy(c, S_REPLCONF))

(***************************************************************************)
(* C35.  When the master has nothing left to run, a connection is marked   *)
(* in the no-response queue at most once for every GETACK it has not yet   *)
(* answered; so when all GETACKs have been answered the queue is empty.    *)
(***************************************************************************)
C35_MarksAreConsumed ==
  mq = <<>> => \A c \in Conns : MarksOf(c) <= UnansweredGetAcks(c)

\* how often connection c stands in the list of replicas
TimesAttached(c) ==
  Cardinality({j \in 1..Len(serverState.replicas_connections) :
                 serverState.replicas_connections[j] = c})

\* the writes to c that forward command n of connection from
ForwardsTo(c, from, n) ==
  {j \in 1..Len(out[c]) : out[c][j].tag = PropagateTag(from, n)}

(***************************************************************************)
(* C36.  However many PSYNC a connection sends, it stands at most once in  *)
(* the list of replicas; a forwarded command is written at most once to a  *)
(* connection, and a WAIT that is answered at once answers at most the     *)
(* number of connections that attached.                                    *)
(***************************************************************************)
C36_ReplicasListedOnce ==
  /\ \A c \in Conns : TimesAttached(c) <= 1
  /\ \A c \in Conns : \A i \in 1..Len(log.sent) :
       Cardinality(ForwardsTo(c, log.sent[i].conn, log.sent[i].n)) <= 1
  /\ \A i \in 1..Len(log.sent) :
       (log.sent[i].args[1] = S_WAIT /\ WaitOf(i) = 0)
       => \A r \in RepliesTo(log.sent[i].conn, log.sent[i].n) :
            \E v \in 0..Cardinality({log.attached[j].conn : j \in 1..Len(log.attached)}) :
              out[log.sent[i].conn][r].data = serialazeInteger(v)
=============================================================================
